---------------------------- MODULE Spec2Model ----------------------------
(***************************************************************************)
(* Model of the meal planner (src/app.py) over the schema of                 *)
(* src/data/init_db.py: the recipe catalog query get_recipes_by_filters,     *)
(* the plan assembler generate_meal_plan and the /generate_plan route, the   *)
(* shopping list calculate_missing_ingredients, /rate_recipe, the session    *)
(* routes /generate_sample, /import_json and /export_json, and /export_pdf   *)
(* with its cache.                                                           *)
(*                                                                           *)
(* Text (ingredient names, search terms) is a sequence of one-character      *)
(* strings; tags, cultural labels and meal types are only compared for       *)
(* equality and are plain strings.  A Python value that may be None is a     *)
(* tuple: <<>> for None, <<v>> for the value v.                              *)
(***************************************************************************)
EXTENDS Integers, Sequences, FiniteSets, TLC

VARIABLES
    \* ---- the database (src/data/init_db.py, create_tables) ----
    recipes,              \* table recipes: id -> its meal_type
    recipe_dietary_tags,  \* table recipe_dietary_tags: set of <<recipe_id, tag>>
    recipe_races,         \* table recipe_races: set of <<recipe_id, race>>
    recipe_ingredients,   \* table recipe_ingredients: set of <<recipe_id, ingredient_id>>
    substitutions,        \* table substitutions: set of <<ingredient_id, substitute_ingredient_id>>
    storage_faults,       \* the storage operations that fail (see ConnectOp, PoolStatement)
    \* ---- one call of get_recipes_by_filters ----
    query,                \* the arguments of the last call, <<>> before the first
    result,               \* the list it returned (recipe ids)
    find_raised,          \* TRUE when the call raised instead of returning
    alone,                \* the results of the same call with one filter at a time
    \* ---- one /generate_plan request and its generate_meal_plan call ----
    pc,                   \* "idle", "prefetch", "loop", "done", "rendered", "rejected",
                          \* "failed" (the route's except branch), "error"
    request,              \* the form of the request, <<>> before it arrives
    days,                 \* the validated day count
    ingredients,          \* the parsed ingredient terms: <<>> (None) or <<list>>
    dietary_prefs,        \* list of dietary tags
    race,                 \* <<>> (None) or <<cultural tag>>
    recipes_by_type,      \* meal type -> primary pool (list of ids)
    fallback_by_type,     \* meal type -> fallback pool (list of ids)
    used_recipe_ids,      \* set of ids
    meal_plan,            \* day key -> (meal type -> recipe id), keys as the code sets them
    day,                  \* loop variable of the day loop
    slot,                 \* index into meal_types of the slot processed next
    raised,               \* TRUE once an exception escaped generate_meal_plan
    selections,           \* history: one entry per slot processed, in order
    \* ---- one call of calculate_missing_ingredients ----
    shop_call,            \* the arguments of the last call, <<>> before the first
    shop_result,          \* the dict it returned: category -> list of names
    shop_raised,          \* TRUE when the call raised instead of returning
    shop_again,           \* <<>>, or <<the dict returned by the same call made once more>>
    \* ---- the client's session and the page rendered for its request ----
    session,              \* current_meal_plan, current_shopping_list, plan_metadata
    response,             \* "" before the request is answered, then what was rendered
    \* ---- the PDF cache and the /export_pdf requests ----
    pdf_cache,            \* _pdf_cache: its entries in the dict's order, each with
                          \* its key (plan hash) and the ordinal of the insert
                          \* that put the key in (history)
    exports,              \* worker thread -> position and locals of its /export_pdf request
    export_count,         \* the number of /export_pdf requests received
    \* ---- the ratings and the /rate_recipe requests ----
    ratings,              \* table ratings: set of <<recipe_id, rating>>
    rate_log,             \* history: the /rate_recipe requests served, in order
    \* ---- generate_meal_plan calls running at the same time ----
    calls,                \* worker thread -> the locals of its generate_meal_plan call
    \* ---- the documents of the export routes ----
    pdf_bytes,            \* _pdf_cache's values: plan hash -> the PDF stored under it
    download              \* the body of the last response when it was a file, else None

db_vars   == <<recipes, recipe_dietary_tags, recipe_races, recipe_ingredients, substitutions,
               storage_faults>>
find_vars == <<query, result, find_raised, alone>>
plan_vars == <<pc, request, days, ingredients, dietary_prefs, race, recipes_by_type,
               fallback_by_type, used_recipe_ids, meal_plan, day, slot, raised,
               selections>>
shop_vars == <<shop_call, shop_result, shop_raised, shop_again>>
web_vars  == <<session, response>>
pdf_vars  == <<pdf_cache, exports, export_count>>
rate_vars == <<ratings, rate_log>>
ext_vars  == <<shop_vars, web_vars, pdf_vars>>
call_vars == <<calls>>
doc_vars  == <<pdf_bytes, download>>
vars      == <<db_vars, find_vars, plan_vars, ext_vars, rate_vars, call_vars, doc_vars>>

-----------------------------------------------------------------------------
(* Bounds of the model *)

\* recipes in a catalog of the plan specification
MaxRecipes == 4
\* days requested (the route accepts 1..DaysLimit)
MaxDays == 5
\* days of a plan handed to calculate_missing_ingredients
MaxPlanDays == 2
\* rows of a link table in a catalog of the query specification
MaxRows == 3
\* ingredient terms in one call
MaxTerms == 2
\* /export_pdf requests received by the server
MaxExports == 53
\* worker threads that serve /export_pdf requests at the same time
MaxThreads == 2
\* /rate_recipe requests of one behaviour
MaxRatings == 3
\* plans whose PDF is built in one behaviour of the session specification
MaxCached == 1

\* the route's upper limit on days
DaysLimit == 30
\* the days of a sample plan: generate_meal_plan(7, ...)
SampleDays == 7

\* _pdf_cache_max_size
pdf_cache_max_size == 50

-----------------------------------------------------------------------------
(* Python values *)

None == <<>>
Some(v) == <<v>>
IsNone(o) == o = <<>>
Val(o) == o[1]

\* Python truthiness of an optional string: None and "" are falsy
TruthyStr(o) == ~IsNone(o) /\ Val(o) # ""
\* Python truthiness of an optional list: None and [] are falsy
TruthyList(o) == ~IsNone(o) /\ Val(o) # <<>>

Range(s) == {s[i] : i \in 1..Len(s)}

NoDuplicates(s) == \A i, j \in 1..Len(s) : i # j => s[i] # s[j]

\* the elements of a set of integers as an ascending list
RECURSIVE SortedSeq(_)
SortedSeq(S) ==
    IF S = {} THEN <<>>
    ELSE LET m == CHOOSE x \in S : \A y \in S : x <= y
         IN  <<m>> \o SortedSeq(S \ {m})

-----------------------------------------------------------------------------
(* Text *)

UpperCase == <<"A","B","C","D","E","F","G","H","I","J","K","L","M",
               "N","O","P","Q","R","S","T","U","V","W","X","Y","Z">>
LowerCase == <<"a","b","c","d","e","f","g","h","i","j","k","l","m",
               "n","o","p","q","r","s","t","u","v","w","x","y","z">>

\* the characters of the model's texts
Alphabet == Range(UpperCase) \cup Range(LowerCase) \cup {" ", "\t", "\n", ",", "%", "_"}

\* LOWER() of SQLite / str.lower() on one ASCII character
LowerTable ==
    [c \in Alphabet |->
        IF \E i \in 1..Len(UpperCase) : UpperCase[i] = c
        THEN LowerCase[CHOOSE i \in 1..Len(UpperCase) : UpperCase[i] = c]
        ELSE c]
LowerChar(c) == LowerTable[c]

LowerStr(s) == [i \in 1..Len(s) |-> LowerChar(s[i])]

Whitespace == {" ", "\t", "\n"}

RECURSIVE LStrip(_)
LStrip(s) == IF s # <<>> /\ Head(s) \in Whitespace THEN LStrip(Tail(s)) ELSE s

RECURSIVE RStrip(_)
RStrip(s) ==
    IF s # <<>> /\ s[Len(s)] \in Whitespace THEN RStrip(SubSeq(s, 1, Len(s) - 1)) ELSE s

\* str.strip()
Strip(s) == RStrip(LStrip(s))

\* SQLite's  s LIKE p : % matches any run of characters, _ any one character,
\* every other character itself without regard to ASCII case
RECURSIVE Like(_, _)
Like(p, s) ==
    IF p = <<>> THEN s = <<>>
    ELSE IF Head(p) = "%"
         THEN Like(Tail(p), s) \/ (s # <<>> /\ Like(p, Tail(s)))
         ELSE /\ s # <<>>
              /\ (Head(p) = "_" \/ LowerChar(Head(p)) = LowerChar(Head(s)))
              /\ Like(Tail(p), Tail(s))

\* Python's  a in b  on strings: a is a contiguous part of b
Contains(b, a) ==
    \E i \in 0..(Len(b) - Len(a)) : SubSeq(b, i + 1, i + Len(a)) = a

-----------------------------------------------------------------------------
(* The ingredients table: rows as populate_ingredients writes them and one   *)
(* row with a capital letter, id = position                                 *)

ingredients_table ==
    << [name |-> <<"s","a","l","m","o","n">>,         category |-> "protein"],
       [name |-> <<"s","h","r","i","m","p">>,         category |-> "protein"],
       [name |-> <<"r","i","c","e">>,                 category |-> "grain"],
       [name |-> <<"g","i","n","g","e","r">>,         category |-> "vegetable"],
       [name |-> <<"b","r","o","t","h">>,             category |-> "broth"],
       [name |-> <<"E","g","g","p","l","a","n","t">>, category |-> "vegetable"] >>

IngredientIds == 1..Len(ingredients_table)

\* the ingredients that the catalogs of the query specifications link to
FindIngredientIds == 1..3

IngName(i) == ingredients_table[i].name

\* the six meal categories, in the order of the slot loop
meal_types == <<"breakfast", "lunch", "dinner", "appetizer", "dessert", "drink">>

-----------------------------------------------------------------------------
(* get_recipes_by_filters: the catalog query *)

\* LOWER(name) LIKE LOWER('%' + term.strip() + '%')
NameLike(term, name) ==
    Like(LowerStr(<<"%">> \o Strip(term) \o <<"%">>), LowerStr(name))

\* (variant: the pairs followed in both directions)
SubstituteIdsMutant(term) ==
    {s[2] : s \in {t \in substitutions : NameLike(term, IngName(t[1]))}}
        \cup {s[1] : s \in {t \in substitutions : NameLike(term, IngName(t[2]))}}
\* the subquery on substitutions: the substitute_ingredient_id of every pair
\* whose ingredient_id names an ingredient matching the term
SubstituteIds(term) ==
    {s[2] : s \in {t \in substitutions : NameLike(term, IngName(t[1]))}}

\* the condition on one ingredient row i of the recipe
IngredientMatches(i, term) ==
    NameLike(term, IngName(i)) \/ i \in SubstituteIds(term)

\* EXISTS (SELECT 1 FROM recipe_ingredients ri JOIN ingredients i ... WHERE ri.recipe_id = r.id AND (...))
TermCondition(r, term) ==
    \E ri \in recipe_ingredients :
        /\ ri[1] = r
        /\ ri[2] \in IngredientIds
        /\ IngredientMatches(ri[2], term)

\* (variant: the conditions joined with AND)
IngredientConditionMutant(r, terms) ==
    \A k \in 1..Len(terms) : TermCondition(r, terms[k])
\* the ingredient conditions of all terms, joined with OR
IngredientCondition(r, terms) ==
    \E k \in 1..Len(terms) : TermCondition(r, terms[k])

\* JOIN recipe_races rr ON r.id = rr.recipe_id ... rr.race = ? : the joined rows of recipe r
RaceRows(r, race_arg) ==
    {rr \in recipe_races : rr[1] = r /\ rr[2] = Val(race_arg)}

\* (variant: one join with  tag IN (...), any listed tag)
DietaryRowsMutant(r, prefs) ==
    IF \E i \in 1..Len(prefs) : <<r, prefs[i]>> \in recipe_dietary_tags THEN 1 ELSE 0
\* one JOIN recipe_dietary_tags rdt<i> per listed tag, each with rdt<i>.tag = ? :
\* the number of joined rows of recipe r is the product of the matches per tag
DietaryRows(r, prefs) ==
    IF \A i \in 1..Len(prefs) : <<r, prefs[i]>> \in recipe_dietary_tags THEN 1 ELSE 0

\* (variant: the conditions joined with OR instead of AND)
SelectsAnyMutant(r, ingredients_arg, prefs_arg, race_arg, meal_type_arg) ==
    \/ /\ ~TruthyStr(race_arg) /\ ~TruthyList(prefs_arg)
       /\ ~TruthyStr(meal_type_arg) /\ ~TruthyList(ingredients_arg)
    \/ TruthyStr(race_arg) /\ RaceRows(r, race_arg) # {}
    \/ TruthyList(prefs_arg) /\ DietaryRows(r, Val(prefs_arg)) > 0
    \/ TruthyStr(meal_type_arg) /\ recipes[r] = Val(meal_type_arg)
    \/ TruthyList(ingredients_arg) /\ IngredientCondition(r, Val(ingredients_arg))
\* (variant: a meal type outside the six categories and a cultural tag that no
\* recipe carries are not made conditions)
SelectsLenientMutant(r, ingredients_arg, prefs_arg, race_arg, meal_type_arg) ==
    /\ (TruthyStr(race_arg) /\ \E rr \in recipe_races : rr[2] = Val(race_arg))
           => RaceRows(r, race_arg) # {}
    /\ TruthyList(prefs_arg) => DietaryRows(r, Val(prefs_arg)) > 0
    /\ (TruthyStr(meal_type_arg) /\ Val(meal_type_arg) \in Range(meal_types))
           => recipes[r] = Val(meal_type_arg)
    /\ TruthyList(ingredients_arg) => IngredientCondition(r, Val(ingredients_arg))
\* does the query select at least one joined row of recipe r: the conditions
\* of the filters given, joined with AND
Selects(r, ingredients_arg, prefs_arg, race_arg, meal_type_arg) ==
    /\ TruthyStr(race_arg) => RaceRows(r, race_arg) # {}
    /\ TruthyList(prefs_arg) => DietaryRows(r, Val(prefs_arg)) > 0
    /\ TruthyStr(meal_type_arg) => recipes[r] = Val(meal_type_arg)
    /\ TruthyList(ingredients_arg) => IngredientCondition(r, Val(ingredients_arg))

\* SELECT DISTINCT r.id, ... : one row per selected recipe; the order of the rows
\* is the table's (ascending id)
get_recipes_by_filters(ingredients_arg, prefs_arg, race_arg, meal_type_arg) ==
    SortedSeq({r \in DOMAIN recipes :
                  Selects(r, ingredients_arg, prefs_arg, race_arg, meal_type_arg)})

\* names of the storage operations: opening the connection, the statement of
\* a direct call of get_recipes_by_filters, the two statements per meal type of
\* generate_meal_plan, and the batched statement of the shopping list
ConnectOp == <<"connect", "">>
FindStatement == <<"find", "">>
PoolStatement(kind, meal_type) == <<kind, meal_type>>
ShoppingStatement == <<"shopping", "">>

\* get_db(): sqlite3.connect raises when the database cannot be opened
ConnectFails == ConnectOp \in storage_faults

\* conn.execute(...).fetchall() of the statement named stmt raises
ExecuteFails(stmt) == stmt \in storage_faults

\* one call of get_recipes_by_filters against the storage: the connection is
\* taken before the try block, so a failure there is raised to the caller; the
\* statement runs inside it, and an exception there is printed and [] returned
FindOutcome(stmt, ingredients_arg, prefs_arg, race_arg, meal_type_arg) ==
    IF ConnectFails THEN [raised |-> TRUE, rows |-> <<>>]
    ELSE IF ExecuteFails(stmt) THEN [raised |-> FALSE, rows |-> <<>>]
    ELSE [raised |-> FALSE,
          rows |-> get_recipes_by_filters(ingredients_arg, prefs_arg, race_arg,
                                          meal_type_arg)]

-----------------------------------------------------------------------------
(* Inputs of the catalog query specification *)

\* all lists of at most n elements of S
RECURSIVE ListsUpTo(_, _)
ListsUpTo(S, n) ==
    IF n = 0 THEN {<<>>}
    ELSE LET shorter == ListsUpTo(S, n - 1)
         IN  shorter \cup {Append(l, x) : l \in shorter, x \in S}

\* all subsets of S with at most n elements
SubsetsUpTo(S, n) == {T \in SUBSET S : Cardinality(T) <= n}

\* ingredient terms a caller may pass: mixed case, surrounding blanks, empty,
\* blank, and one with a LIKE wildcard
TermMenu ==
    { <<"S","a","l","m","o","n">>,
      <<" ","s","h","r","i","m","p"," ">>,
      <<>>,
      <<" ">>,
      <<"s","%","n">> }
TermLists == ListsUpTo(TermMenu, MaxTerms)

DietaryTagMenu == {"vegan", "gluten-free", "keto"}
RaceMenu == {None, Some(""), Some("Asian"), Some("Martian")}
MealTypeMenu == {None, Some("breakfast"), Some("dinner"), Some("brunch")}
PrefLists == {None} \cup {Some(l) : l \in ListsUpTo(DietaryTagMenu, MaxTerms)}

\* the recipes table of the query catalogs
FindRecipes == <<"breakfast", "breakfast", "dinner">>
FindRecipeIds == 1..Len(FindRecipes)

\* link tables held fixed while another one is varied
DefaultRecipeIngredients == {<<1, 1>>, <<2, 2>>, <<2, 3>>}
DefaultDietaryTags == {<<1, "vegan">>, <<2, "vegan">>, <<2, "gluten-free">>}
DefaultRaces == {<<1, "Asian">>, <<3, "Asian">>}
RaceTables == {{}, DefaultRaces, {<<1, "Asian">>, <<2, "Hispanic">>}}
SubstitutionTables == {{}, {<<1, 2>>}, {<<1, 2>>, <<2, 1>>}}

PlanIdle ==
    /\ pc = "idle"
    /\ request = <<>>
    /\ days = 0
    /\ ingredients = None
    /\ dietary_prefs = None
    /\ race = None
    /\ recipes_by_type = <<>>
    /\ fallback_by_type = <<>>
    /\ used_recipe_ids = {}
    /\ meal_plan = <<>>
    /\ day = 0
    /\ slot = 0
    /\ raised = FALSE
    /\ selections = <<>>

\* no call of calculate_missing_ingredients was made
ShopIdle ==
    /\ shop_call = <<>>
    /\ shop_result = <<>>
    /\ shop_raised = FALSE
    /\ shop_again = None

\* no rating is stored, no /rate_recipe request was served
RateIdle ==
    /\ ratings = {}
    /\ rate_log = <<>>

\* no PDF is stored, no file was sent
DocIdle ==
    /\ pdf_bytes = <<>>
    /\ download = None

\* a new session: no key is set
FreshSession ==
    [current_meal_plan |-> None, current_shopping_list |-> None, plan_metadata |-> None]

\* a new session, no page rendered
WebIdle ==
    /\ session = FreshSession
    /\ response = ""

\* an empty PDF cache, no export request
PdfIdle ==
    /\ pdf_cache = <<>>
    /\ exports = <<>>
    /\ export_count = 0

FindIdle ==
    /\ query = <<>>
    /\ result = <<>>
    /\ find_raised = FALSE
    /\ alone = <<>>

\* a catalog with its ingredient links and substitutions varied
InitFindIngredients ==
    /\ recipes = FindRecipes
    /\ recipe_ingredients \in SubsetsUpTo(FindRecipeIds \X FindIngredientIds, MaxRows)
    /\ substitutions \in SubstitutionTables
    /\ recipe_dietary_tags = DefaultDietaryTags
    /\ recipe_races = DefaultRaces
    /\ storage_faults = {}
    /\ FindIdle
    /\ PlanIdle
    /\ ShopIdle
    /\ RateIdle
    /\ calls = <<>>
    /\ DocIdle
    /\ WebIdle
    /\ PdfIdle

\* a catalog with its dietary and cultural tags varied
InitFindTags ==
    /\ recipes = FindRecipes
    /\ recipe_ingredients = DefaultRecipeIngredients
    /\ substitutions = {}
    /\ recipe_dietary_tags \in
           SubsetsUpTo(FindRecipeIds \X {"vegan", "gluten-free"}, MaxRows)
    /\ recipe_races \in RaceTables
    /\ storage_faults = {}
    /\ FindIdle
    /\ PlanIdle
    /\ ShopIdle
    /\ RateIdle
    /\ calls = <<>>
    /\ DocIdle
    /\ WebIdle
    /\ PdfIdle

\* the call get_recipes_by_filters(ingredients, dietary_prefs, race, meal_type)
\* of a behaviour: the catalog is read, never written
CallFind(i, d, r, m) ==
    /\ query = <<>>
    /\ query' = [ingredients |-> i, dietary_prefs |-> d, race |-> r, meal_type |-> m]
    /\ result' = FindOutcome(FindStatement, i, d, r, m).rows
    /\ find_raised' = FindOutcome(FindStatement, i, d, r, m).raised
    /\ UNCHANGED alone
    /\ UNCHANGED <<db_vars, rate_vars, call_vars, doc_vars, plan_vars, ext_vars>>

\* a call with ingredient terms only
FindByIngredients ==
    \E terms \in TermLists : CallFind(Some(terms), None, None, None)

\* a call with dietary tags, cultural tag and meal type
FindByTags ==
    \E prefs \in PrefLists, r \in RaceMenu, m \in MealTypeMenu :
        CallFind(None, prefs, r, m)

\* ingredient and dietary arguments of the calls that combine filters
CombinedTerms == {None, Some(<<>>)} \cup {Some(<<t>>) : t \in TermMenu}
CombinedPrefs ==
    {None, Some(<<>>), Some(<<"vegan">>), Some(<<"vegan", "gluten-free">>), Some(<<"keto">>)}

\* a catalog with its cultural tags and substitutions varied
InitFindCombined ==
    /\ recipes = FindRecipes
    /\ recipe_ingredients = DefaultRecipeIngredients
    /\ substitutions \in SubstitutionTables
    /\ recipe_dietary_tags = DefaultDietaryTags
    /\ recipe_races \in RaceTables
    /\ storage_faults = {}
    /\ FindIdle
    /\ PlanIdle
    /\ ShopIdle
    /\ RateIdle
    /\ calls = <<>>
    /\ DocIdle
    /\ WebIdle
    /\ PdfIdle

\* a call with any combination of the four filters, followed by the four calls
\* that pass one of its filters each
FindCombined ==
    \E i \in CombinedTerms, d \in CombinedPrefs, r \in RaceMenu, m \in MealTypeMenu :
        /\ query = <<>>
        /\ query' = [ingredients |-> i, dietary_prefs |-> d, race |-> r, meal_type |-> m]
        /\ result' = FindOutcome(FindStatement, i, d, r, m).rows
        /\ find_raised' = FindOutcome(FindStatement, i, d, r, m).raised
        /\ alone' = [ingredients   |-> FindOutcome(FindStatement, i, None, None, None).rows,
                     dietary_prefs |-> FindOutcome(FindStatement, None, d, None, None).rows,
                     race          |-> FindOutcome(FindStatement, None, None, r, None).rows,
                     meal_type     |-> FindOutcome(FindStatement, None, None, None, m).rows]
        /\ UNCHANGED <<db_vars, rate_vars, call_vars, doc_vars, plan_vars, ext_vars>>

SpecFindIngredients == InitFindIngredients /\ [][FindByIngredients]_vars

SpecFindCombined == InitFindCombined /\ [][FindCombined]_vars

SpecFindTags == InitFindTags /\ [][FindByTags]_vars

-----------------------------------------------------------------------------
(* The /generate_plan route and generate_meal_plan *)

\* a Python dict with no key
EmptyDict == [k \in {} |-> 0]

\* f"Day {day}"
DayKey(d) == <<"Day", d>>

\* str.split(','): the pieces between the commas (at least one piece)
RECURSIVE Split(_)
Split(s) ==
    IF \E i \in 1..Len(s) : s[i] = ","
    THEN LET i == CHOOSE j \in 1..Len(s) : s[j] = "," /\ \A k \in 1..(j - 1) : s[k] # ","
         IN  <<SubSeq(s, 1, i - 1)>> \o Split(SubSeq(s, i + 1, Len(s)))
    ELSE <<s>>

\* the route's parsing of the form field 'ingredients': None for a blank field,
\* else the trimmed pieces that are not empty
ParseIngredients(field) ==
    IF Strip(field) = <<>> THEN None
    ELSE LET pieces == Split(Strip(field))
             trimmed == [i \in 1..Len(pieces) |-> Strip(pieces[i])]
         IN  Some(SelectSeq(trimmed, LAMBDA t : t # <<>>))

\* (variant: only the lower limit is checked)
DaysValidMutant(n) == ~(n < 1)
\* the route's check of the day count
DaysValid(n) == ~(n < 1 \/ n > DaysLimit)

Digits == <<"0", "1", "2", "3", "4", "5", "6", "7", "8", "9">>
DigitValue(c) == (CHOOSE i \in 1..Len(Digits) : Digits[i] = c) - 1

\* the value of a list of digits and underscores
RECURSIVE DigitsValue(_, _)
DigitsValue(body, acc) ==
    IF body = <<>> THEN acc
    ELSE IF Head(body) = "_" THEN DigitsValue(Tail(body), acc)
    ELSE DigitsValue(Tail(body), 10 * acc + DigitValue(Head(body)))

\* int(text): blanks around the number are dropped, a sign may lead, digits
\* follow, single underscores may stand between digits; anything else raises
\* ValueError (None here)
ParseInt(text) ==
    LET t == Strip(text)
        signed == t # <<>> /\ Head(t) \in {"+", "-"}
        body == IF signed THEN Tail(t) ELSE t
        wellFormed ==
            /\ body # <<>>
            /\ \A i \in 1..Len(body) : body[i] \in Range(Digits) \cup {"_"}
            /\ body[1] # "_"
            /\ body[Len(body)] # "_"
            /\ \A i \in 1..(Len(body) - 1) : ~(body[i] = "_" /\ body[i + 1] = "_")
    IN  IF ~wellFormed THEN None
        ELSE IF signed /\ Head(t) = "-" THEN Some(0 - DigitsValue(body, 0))
        ELSE Some(DigitsValue(body, 0))

\* str(n) for n >= 0
RECURSIVE IntText(_)
IntText(n) ==
    IF n < 10 THEN <<Digits[n + 1]>> ELSE IntText(n \div 10) \o <<Digits[(n % 10) + 1]>>

\* (variant: the used recipes are not excluded)
AvailableMutant(pool, used) == pool
\* [r for r in pool if r['id'] not in used_recipe_ids]
Available(pool, used) == SelectSeq(pool, LAMBDA r : r \notin used)

\* (variant: random.choice without the test)
HasCandidatesMutant(candidates) == TRUE
\* the test  if available_recipes: / if available_fallback:  before random.choice
HasCandidates(candidates) == candidates # <<>>

\* (variant: with a repeat tier, the full primary or fallback pool once every
\* recipe is used)
CandidatesMutant(primary, fallback, used) ==
    IF Available(primary, used) # <<>> THEN Available(primary, used)
    ELSE IF Available(fallback, used) # <<>> THEN Available(fallback, used)
    ELSE IF primary # <<>> THEN primary
    ELSE fallback
\* (variant: the primary pool is not preferred)
CandidatesFallbackMutant(primary, fallback, used) == Available(fallback, used)
\* the list the slot's recipe is drawn from: the unused recipes of the primary
\* pool if there are any, else the unused recipes of the fallback pool
Candidates(primary, fallback, used) ==
    IF primary # <<>>
    THEN IF Available(primary, used) # <<>>
         THEN Available(primary, used)
         ELSE Available(fallback, used)
    ELSE Available(fallback, used)

\* (variants: the selected id is not recorded; only the last one is kept)
UsedAfterMutant(used, r) == used
UsedAfterReset(used, r) == {r}
\* used_recipe_ids.add(selected_recipe['id'])
UsedAfter(used, r) == used \cup {r}

\* meal_plan[day_key][meal_type] = selected_recipe
SetSlot(plan, d, mt, r) ==
    [plan EXCEPT ![DayKey(d)] = [k \in (DOMAIN @) \cup {mt} |-> IF k = mt THEN r ELSE @[k]]]

\* meal_plan[day_key] = {}  at the start of a day
OpenDay(plan, d, s) ==
    IF s = 1 THEN [k \in (DOMAIN plan) \cup {DayKey(d)} |->
                      IF k = DayKey(d) THEN EmptyDict ELSE plan[k]]
    ELSE plan

\* the form fields of the requests: ingredients (raw text), dietary_prefs, race
RequestMenu ==
    { [ingredients |-> <<>>, dietary_prefs |-> <<>>, race |-> None],
      [ingredients |-> <<>>, dietary_prefs |-> <<"vegan">>, race |-> Some("")],
      [ingredients |-> <<>>, dietary_prefs |-> <<>>, race |-> Some("Asian")],
      [ingredients |-> <<" ","R","i","c","e",","," ",",">>, dietary_prefs |-> <<>>, race |-> None],
      [ingredients |-> <<" ",","," ">>, dietary_prefs |-> <<>>, race |-> None] }

\* day counts a form may carry: below, inside and above the accepted range
DaysMenu == (0..MaxDays) \cup {DaysLimit + 1}

\* the text of the form field 'days': the day counts, and texts that are a
\* negative number, a number between blanks, not an integer, or empty
DaysFieldMenu ==
    {IntText(n) : n \in DaysMenu}
        \cup { <<"-", "1">>, <<" ", "2", " ">>, <<"2", ".", "5">>, <<"x">>, <<>> }

\* the route up to the call of generate_meal_plan: read the form, validate,
\* parse; a rejected request renders the form again with an error
GeneratePlanRequest ==
    /\ pc = "idle"
    /\ \E form \in RequestMenu, field \in DaysFieldMenu :
          /\ request' = [ingredients |-> form.ingredients,
                         dietary_prefs |-> form.dietary_prefs,
                         race |-> form.race, days |-> field]
          /\ IF IsNone(ParseInt(field))
             THEN \* int() raised ValueError
                  /\ pc' = "rejected"
                  /\ response' = "invalid_input"
                  /\ UNCHANGED <<days, ingredients, dietary_prefs, race>>
             ELSE IF DaysValid(Val(ParseInt(field)))
             THEN /\ pc' = "prefetch"
                  /\ response' = response
                  /\ days' = Val(ParseInt(field))
                  /\ ingredients' = ParseIngredients(form.ingredients)
                  /\ dietary_prefs' = Some(form.dietary_prefs)
                  /\ race' = form.race
             ELSE /\ pc' = "rejected"
                  /\ response' = "days_error"
                  /\ UNCHANGED <<days, ingredients, dietary_prefs, race>>
    /\ UNCHANGED <<recipes_by_type, fallback_by_type, used_recipe_ids, meal_plan,
                   day, slot, raised, selections>>
    /\ UNCHANGED <<db_vars, rate_vars, call_vars, doc_vars, find_vars, shop_vars, pdf_vars, session>>

\* generate_meal_plan up to the day loop: the two queries per meal type
\* an exception raised by the first query (the connection cannot be opened)
\* leaves generate_meal_plan and is caught by the route, which renders an error
Prefetch ==
    /\ pc = "prefetch"
    /\ IF ConnectFails
       THEN /\ pc' = "failed"
            /\ response' = "generate_error"
            /\ UNCHANGED <<recipes_by_type, fallback_by_type, used_recipe_ids,
                           meal_plan, day, slot>>
       ELSE /\ recipes_by_type' =
                   [mt \in Range(meal_types) |->
                       FindOutcome(PoolStatement("primary", mt),
                                   ingredients, dietary_prefs, race, Some(mt)).rows]
            /\ fallback_by_type' =
                   [mt \in Range(meal_types) |->
                       FindOutcome(PoolStatement("fallback", mt),
                                   None, None, None, Some(mt)).rows]
            /\ used_recipe_ids' = {}
            /\ meal_plan' = EmptyDict
            /\ day' = 1
            /\ slot' = 1
            /\ pc' = "loop"
            /\ response' = response
    /\ UNCHANGED <<request, days, ingredients, dietary_prefs, race, raised, selections>>
    /\ UNCHANGED <<db_vars, rate_vars, call_vars, doc_vars, find_vars, shop_vars, pdf_vars, session>>

\* (variant: range(1, days), one day short)
AdvanceMutant ==
    IF slot < Len(meal_types)
    THEN slot' = slot + 1 /\ day' = day /\ pc' = "loop"
    ELSE IF day < days - 1
         THEN slot' = 1 /\ day' = day + 1 /\ pc' = "loop"
         ELSE slot' = slot /\ day' = day /\ pc' = "done"
\* the loop variables after the slot (day, slot):  for day in range(1, days + 1)
Advance ==
    IF slot < Len(meal_types)
    THEN slot' = slot + 1 /\ day' = day /\ pc' = "loop"
    ELSE IF day < days
         THEN slot' = 1 /\ day' = day + 1 /\ pc' = "loop"
         ELSE slot' = slot /\ day' = day /\ pc' = "done"

\* the history entry of the slot processed: what was in the used set before,
\* and the recipe selected (None when the slot was left without one)
Selection(mt, picked) ==
    [day |-> day, meal_type |-> mt, used_before |-> used_recipe_ids, id |-> picked]

\* one iteration of the inner loop: the slot of meal_types[slot] on day `day`
SelectSlot ==
    /\ pc = "loop"
    /\ LET mt == meal_types[slot]
           plan0 == OpenDay(meal_plan, day, slot)
           candidates == Candidates(recipes_by_type[mt], fallback_by_type[mt],
                                    used_recipe_ids)
       IN  IF HasCandidates(candidates)
           THEN IF candidates = <<>>
                THEN \* random.choice of an empty list raises IndexError
                     /\ raised' = TRUE
                     /\ pc' = "error"
                     /\ meal_plan' = plan0
                     /\ UNCHANGED <<used_recipe_ids, day, slot, selections>>
                ELSE \E i \in 1..Len(candidates) :
                         /\ meal_plan' = SetSlot(plan0, day, mt, candidates[i])
                         /\ used_recipe_ids' = UsedAfter(used_recipe_ids, candidates[i])
                         /\ selections' = Append(selections, Selection(mt, Some(candidates[i])))
                         /\ raised' = raised
                         /\ Advance
           ELSE /\ meal_plan' = plan0
                /\ selections' = Append(selections, Selection(mt, None))
                /\ UNCHANGED <<used_recipe_ids, raised>>
                /\ Advance
    /\ UNCHANGED <<request, days, ingredients, dietary_prefs, race, recipes_by_type,
                   fallback_by_type>>
    /\ UNCHANGED <<db_vars, rate_vars, call_vars, doc_vars, find_vars, ext_vars>>

\* the catalogs of the plan specification: nb breakfast recipes (ids 1..nb)
\* followed by nd drink recipes; odd ids are vegan, ids 1 and 2 Asian, and
\* recipe i has the ingredient 1 + (i - 1) mod 3
PlanCatalog(nb, nd) ==
    /\ recipes = [i \in 1..(nb + nd) |-> IF i <= nb THEN "breakfast" ELSE "drink"]
    /\ recipe_dietary_tags = {<<i, "vegan">> : i \in {j \in 1..(nb + nd) : j % 2 = 1}}
    /\ recipe_races = {<<i, "Asian">> : i \in {j \in 1..(nb + nd) : j <= 2}}
    /\ recipe_ingredients = {<<i, 1 + ((i - 1) % 3)>> : i \in 1..(nb + nd)}
    /\ substitutions = {}

InitPlan ==
    /\ \E nb \in 0..MaxRecipes, nd \in 0..MaxRecipes :
          nb + nd <= MaxRecipes /\ PlanCatalog(nb, nd)
    /\ storage_faults = {}
    /\ FindIdle
    /\ PlanIdle
    /\ ShopIdle
    /\ RateIdle
    /\ calls = <<>>
    /\ DocIdle
    /\ WebIdle
    /\ PdfIdle

-----------------------------------------------------------------------------
(* calculate_missing_ingredients: the shopping list of a plan *)

\* A plan handed to the function is the list of its days in the order of
\* meal_plan.items(); a day is the list of its <<meal type, recipe>> items in
\* the order of meals.items(); a recipe is <<>> (None) or <<id>> (a dict with
\* that id, 0 for a dict without one).

\* the characters in ascending order of their code points
CodePoints ==
    <<"\t", "\n", " ", "%", ",">> \o UpperCase \o <<"_">> \o LowerCase
CodeOf == [c \in Alphabet |-> CHOOSE i \in 1..Len(CodePoints) : CodePoints[i] = c]

\* a < b for Python strings and for SQLite's BINARY collation
RECURSIVE StrLess(_, _)
StrLess(a, b) ==
    IF b = <<>> THEN FALSE
    ELSE IF a = <<>> THEN TRUE
    ELSE IF Head(a) = Head(b) THEN StrLess(Tail(a), Tail(b))
    ELSE CodeOf[Head(a)] < CodeOf[Head(b)]

\* (variant: the names in the order of their lower-cased form, reversed)
RECURSIVE SortedNamesMutant(_)
SortedNamesMutant(S) ==
    IF S = {} THEN <<>>
    ELSE LET m == CHOOSE x \in S : \A y \in S \ {x} : StrLess(y, x)
         IN  <<m>> \o SortedNamesMutant(S \ {m})
\* sorted(list(names))
RECURSIVE SortedNames(_)
SortedNames(S) ==
    IF S = {} THEN <<>>
    ELSE LET m == CHOOSE x \in S : \A y \in S \ {x} : StrLess(x, y)
         IN  <<m>> \o SortedNames(S \ {m})

\* the categories of the ingredients table in ascending (BINARY) order
CategoryOrder == <<"broth", "grain", "protein", "vegetable">>
CategoryRank(c) == CHOOSE i \in 1..Len(CategoryOrder) : CategoryOrder[i] = c

\* ORDER BY i.category, i.name : does ingredient a come before ingredient b
RowBefore(a, b) ==
    \/ CategoryRank(ingredients_table[a].category) < CategoryRank(ingredients_table[b].category)
    \/ /\ ingredients_table[a].category = ingredients_table[b].category
       /\ StrLess(IngName(a), IngName(b))

\* (variant: no test, every slot is read)
SlotCountsMutant(v) == TRUE
\* the test  if recipe and recipe.get('id')  on the value of a slot
SlotCounts(v) == ~IsNone(v) /\ Val(v) # 0

\* the ids appended for one day, in the order of its items
DayRecipeIds(meals) ==
    LET kept == SelectSeq(meals, LAMBDA item : SlotCounts(item[2]))
    IN  [k \in 1..Len(kept) |-> IF IsNone(kept[k][2]) THEN 0 ELSE Val(kept[k][2])]

\* recipe['id']  on None raises TypeError
SubscriptsNone(plan) ==
    \E d \in 1..Len(plan) : \E k \in 1..Len(plan[d]) :
        SlotCounts(plan[d][k][2]) /\ IsNone(plan[d][k][2])

\* recipe_ids: the ids of the whole plan, in order, repeated when a recipe
\* fills several slots
RECURSIVE CollectRecipeIds(_)
CollectRecipeIds(plan) ==
    IF plan = <<>> THEN <<>>
    ELSE DayRecipeIds(Head(plan)) \o CollectRecipeIds(Tail(plan))

\* the rows of the batched query: one row per link of a listed recipe to an
\* ingredient, ordered by category and name (ingredient ids stand for the rows)
RECURSIVE OrderedRows(_, _)
OrderedRows(ids, links) ==
    IF ids = {} THEN <<>>
    ELSE LET first == CHOOSE a \in ids : \A b \in ids \ {a} : RowBefore(a, b)
             copies == Cardinality({l \in links : l[2] = first})
         IN  [k \in 1..copies |-> first] \o OrderedRows(ids \ {first}, links)

AllIngredients(recipe_ids) ==
    LET links == {ri \in recipe_ingredients :
                     ri[1] \in Range(recipe_ids) /\ ri[2] \in IngredientIds}
    IN  OrderedRows({l[2] : l \in links}, links)

\* (variant: only the first entry is kept)
UserIngredientsSetMutant(user_ingredients) ==
    IF user_ingredients = <<>> THEN {} ELSE {LowerStr(Strip(user_ingredients[1]))}
\* set(ing.strip().lower() for ing in user_ingredients)
UserIngredientsSet(user_ingredients) ==
    {LowerStr(Strip(user_ingredients[k])) : k \in 1..Len(user_ingredients)}

\* (variant: only  user_ing in ing_name_lower)
HasIngredientMutant(ing_name, user_set) ==
    \E user_ing \in user_set : Contains(LowerStr(ing_name), user_ing)
\* the inner loop: some entry is part of the lower-cased name, or the
\* lower-cased name is part of some entry
HasIngredient(ing_name, user_set) ==
    \E user_ing \in user_set :
        Contains(LowerStr(ing_name), user_ing) \/ Contains(user_ing, LowerStr(ing_name))

\* needed_ingredients[category].add(ing_name), creating the set when missing
AddNeeded(needed, category, ing_name) ==
    [c \in (DOMAIN needed) \cup {category} |->
        IF c = category
        THEN (IF c \in DOMAIN needed THEN needed[c] ELSE {}) \cup {ing_name}
        ELSE needed[c]]

\* the loop over all_ingredients
RECURSIVE NeededIngredients(_, _, _)
NeededIngredients(rows, user_set, needed) ==
    IF rows = <<>> THEN needed
    ELSE LET ing == ingredients_table[Head(rows)]
         IN  NeededIngredients(Tail(rows), user_set,
                 IF HasIngredient(ing.name, user_set) THEN needed
                 ELSE AddNeeded(needed, ing.category, ing.name))

\* calculate_missing_ingredients(meal_plan, user_ingredients) against the
\* storage: the query is not inside a try block
calculate_missing_ingredients(plan, user_ingredients) ==
    LET pantry == IF TruthyList(user_ingredients) THEN Val(user_ingredients) ELSE <<>>
        recipe_ids == CollectRecipeIds(plan)
        needed == NeededIngredients(AllIngredients(recipe_ids),
                                    UserIngredientsSet(pantry), EmptyDict)
    IN  IF SubscriptsNone(plan) THEN [raised |-> TRUE, value |-> EmptyDict]
        ELSE IF recipe_ids = <<>> THEN [raised |-> FALSE, value |-> EmptyDict]
        ELSE IF ConnectFails \/ ExecuteFails(ShoppingStatement)
             THEN [raised |-> TRUE, value |-> EmptyDict]
             ELSE [raised |-> FALSE,
                   value |-> [c \in DOMAIN needed |-> SortedNames(needed[c])]]

\* the plan as meal_plan.items() yields it: the days in the order they were
\* opened, the slots of a day in the order they were set
PlanItems(plan) ==
    [d \in 1..Cardinality(DOMAIN plan) |->
        LET meals == plan[DayKey(d)]
            present == SelectSeq(meal_types, LAMBDA mt : mt \in DOMAIN meals)
        IN  [k \in 1..Len(present) |-> <<present[k], Some(meals[present[k]])>>]]

\* session['plan_metadata'] of a generated plan (without its time stamp)
PlanMetadata ==
    [days |-> days,
     ingredients |-> IF TruthyList(ingredients) THEN Val(ingredients) ELSE <<>>,
     dietary_prefs |-> Val(dietary_prefs),
     race |-> race]

\* the route after generate_meal_plan returned: the shopping list is computed,
\* plan, list and metadata are stored in the session and the plan is rendered;
\* an exception of the shopping list query is caught by the route
FinishPlan ==
    /\ pc = "done"
    /\ LET shopping == calculate_missing_ingredients(PlanItems(meal_plan), ingredients)
       IN  IF meal_plan = EmptyDict
           THEN /\ pc' = "failed"
                /\ response' = "could_not_generate"
                /\ session' = session
           ELSE IF shopping.raised
           THEN /\ pc' = "failed"
                /\ response' = "generate_error"
                /\ session' = session
           ELSE /\ pc' = "rendered"
                /\ response' = "meal_plan"
                /\ session' = [current_meal_plan |-> Some(meal_plan),
                               current_shopping_list |-> Some(shopping.value),
                               plan_metadata |-> Some(PlanMetadata)]
    /\ UNCHANGED <<request, days, ingredients, dietary_prefs, race, recipes_by_type,
                   fallback_by_type, used_recipe_ids, meal_plan, day, slot, raised,
                   selections>>
    /\ UNCHANGED <<db_vars, rate_vars, call_vars, doc_vars, find_vars, shop_vars, pdf_vars>>

NextPlan == GeneratePlanRequest \/ Prefetch \/ SelectSlot \/ FinishPlan

SpecPlan == InitPlan /\ [][NextPlan]_vars

\* a session that an earlier request for one day filled, on the catalog of
\* two breakfast recipes and one drink
PriorSession ==
    [current_meal_plan |->
         Some([k \in {DayKey(1)} |->
                  [mt \in {"breakfast", "drink"} |-> IF mt = "breakfast" THEN 1 ELSE 3]]),
     current_shopping_list |->
         Some([c \in {"grain", "protein"} |->
                  IF c = "grain" THEN <<IngName(3)>> ELSE <<IngName(1)>>]),
     plan_metadata |->
         Some([days |-> 1, ingredients |-> <<>>, dietary_prefs |-> <<>>, race |-> None])]

\* one request of a client whose session is new or holds an earlier plan
InitRoute ==
    /\ PlanCatalog(2, 1)
    /\ storage_faults = {}
    /\ FindIdle
    /\ PlanIdle
    /\ ShopIdle
    /\ RateIdle
    /\ calls = <<>>
    /\ DocIdle
    /\ PdfIdle
    /\ response = ""
    /\ session \in {FreshSession, PriorSession}

SpecRoute == InitRoute /\ [][NextPlan]_vars

\* the storage failures of a request: none, the connection, the primary
\* query of one category, both queries of one category, every pool query, and
\* the shopping list query
FaultMenu ==
    { {},
      {ConnectOp},
      {PoolStatement("primary", "breakfast")},
      {PoolStatement("primary", "breakfast"), PoolStatement("fallback", "breakfast")},
      {PoolStatement(kind, mt) : kind \in {"primary", "fallback"}, mt \in Range(meal_types)},
      {ShoppingStatement} }

\* one request against a storage with failures
InitPlanStorage ==
    /\ \E nb \in 1..MaxRecipes, nd \in 0..1 :
          nb + nd <= MaxRecipes /\ PlanCatalog(nb, nd)
    /\ storage_faults \in FaultMenu
    /\ FindIdle
    /\ PlanIdle
    /\ ShopIdle
    /\ RateIdle
    /\ calls = <<>>
    /\ DocIdle
    /\ WebIdle
    /\ PdfIdle

SpecPlanStorage == InitPlanStorage /\ [][NextPlan]_vars

\* the catalog of the shopping specification: recipe 1 needs rice, ginger and
\* broth, recipe 2 rice and Eggplant, recipe 3 has no ingredient row
ShopCatalog ==
    /\ recipes = <<"breakfast", "lunch", "dinner">>
    /\ recipe_ingredients = {<<1, 3>>, <<1, 4>>, <<1, 5>>, <<2, 3>>, <<2, 6>>}
    /\ recipe_dietary_tags = {}
    /\ recipe_races = {}
    /\ substitutions = {}
    /\ storage_faults = {}

\* the days a plan is made of: without items, with a slot whose value is None,
\* with a dict that has no id, with one recipe, with two in either order, and
\* with the recipe that has no ingredients
MealsMenu ==
    { <<>>,
      << <<"breakfast", None>> >>,
      << <<"breakfast", Some(0)>> >>,
      << <<"breakfast", Some(1)>> >>,
      << <<"breakfast", Some(1)>>, <<"lunch", Some(2)>> >>,
      << <<"lunch", Some(2)>>, <<"breakfast", Some(1)>> >>,
      << <<"dinner", Some(3)>> >> }
ShopPlans == ListsUpTo(MealsMenu, MaxPlanDays)

\* pantry entries: one to trim and lower-case that contains a name, one that
\* is part of a name, and an empty one
PantryMenu ==
    { <<" ","J","a","s","m","i","n","e"," ","R","i","c","e"," ">>,
      <<"e","g","g">>,
      <<>> }
PantryRice == <<" ","J","a","s","m","i","n","e"," ","R","i","c","e"," ">>
Pantries == {None} \cup {Some(l) : l \in ListsUpTo(PantryMenu, MaxTerms)}

InitShop ==
    /\ ShopCatalog
    /\ FindIdle
    /\ PlanIdle
    /\ ShopIdle
    /\ RateIdle
    /\ calls = <<>>
    /\ DocIdle
    /\ WebIdle
    /\ PdfIdle

\* the call calculate_missing_ingredients(meal_plan, user_ingredients)
CallShop ==
    /\ shop_call = <<>>
    /\ \E plan \in ShopPlans, pantry \in Pantries :
          /\ shop_call' = [meal_plan |-> plan, user_ingredients |-> pantry]
          /\ shop_result' = calculate_missing_ingredients(plan, pantry).value
          /\ shop_raised' = calculate_missing_ingredients(plan, pantry).raised
    /\ UNCHANGED shop_again
    /\ UNCHANGED <<db_vars, rate_vars, call_vars, doc_vars, find_vars, plan_vars, web_vars, pdf_vars>>

\* the same call made a second time
CallShopAgain ==
    /\ shop_call # <<>>
    /\ shop_again = None
    /\ shop_again' = Some(calculate_missing_ingredients(shop_call.meal_plan,
                                                        shop_call.user_ingredients).value)
    /\ UNCHANGED <<shop_call, shop_result, shop_raised>>
    /\ UNCHANGED <<db_vars, rate_vars, call_vars, doc_vars, find_vars, plan_vars, web_vars, pdf_vars>>

NextShop == CallShop \/ CallShopAgain

SpecShop == InitShop /\ [][NextShop]_vars

-----------------------------------------------------------------------------
(* /export_pdf and the PDF cache *)

\* Plan hashes are numbers: the n-th plan that comes to be exported hashes to
\* n.  One step is one statement on the cache.

\* the largest number of a set of naturals, 0 for the empty set
Largest(S) == IF S = {} THEN 0 ELSE CHOOSE x \in S : \A y \in S : y <= x

\* a worker that serves no request
ExportIdle == [pc |-> "idle", plan_hash |-> 0, first_key |-> 0, built |-> FALSE, status |-> 0]

\* plan_hash in _pdf_cache
InCache(cache, h) == \E i \in 1..Len(cache) : cache[i].key = h

\* _pdf_cache[plan_hash] = pdf_bytes : a new key goes to the end of the dict,
\* a key that is present keeps its place
CachePut(cache, h) ==
    IF InCache(cache, h) THEN cache
    ELSE Append(cache, [key |-> h, at |-> 1 + Largest({cache[i].at : i \in 1..Len(cache)})])

\* del _pdf_cache[first_key]  of a key that is present
CacheDelete(cache, h) == SelectSeq(cache, LAMBDA e : e.key # h)

\* len(_pdf_cache) > _pdf_cache_max_size
OverLimit(cache) == Len(cache) > pdf_cache_max_size

\* (variant: the newest key)
FirstKeyMutant(cache) == cache[Len(cache)].key
\* next(iter(_pdf_cache))
FirstKey(cache) == cache[1].key

\* the plan hashes a request may carry: of a plan never exported, of the
\* oldest and the newest cached plan, and of a plan another worker is exporting
InFlight == {w \in DOMAIN exports : exports[w].pc \notin {"idle", "finished"}}
HashMenu ==
    LET cached == {pdf_cache[i].key : i \in 1..Len(pdf_cache)}
        exporting == {exports[w].plan_hash : w \in InFlight}
    IN  {1 + Largest(cached \cup exporting)}
            \cup (IF pdf_cache = <<>> THEN {}
                  ELSE {pdf_cache[1].key, pdf_cache[Len(pdf_cache)].key})
            \cup exporting

\* the request arrives at worker t: without a plan in the session it is
\* answered 400, else the hash of the session's plan is computed
StartExport(t) ==
    /\ exports[t].pc \in {"idle", "finished"}
    /\ export_count < MaxExports
    /\ export_count' = export_count + 1
    /\ \/ exports' = [exports EXCEPT ![t] = [ExportIdle EXCEPT !.pc = "finished", !.status = 400]]
       \/ \E h \in HashMenu :
              exports' = [exports EXCEPT ![t] = [ExportIdle EXCEPT !.pc = "lookup", !.plan_hash = h]]
    /\ UNCHANGED pdf_cache
    /\ UNCHANGED <<db_vars, rate_vars, call_vars, doc_vars, find_vars, plan_vars, shop_vars, web_vars>>

\* if plan_hash in _pdf_cache:
LookupStep(t) ==
    /\ exports[t].pc = "lookup"
    /\ exports' = [exports EXCEPT ![t].pc =
                       IF InCache(pdf_cache, exports[t].plan_hash) THEN "read" ELSE "insert"]
    /\ UNCHANGED <<pdf_cache, export_count>>
    /\ UNCHANGED <<db_vars, rate_vars, call_vars, doc_vars, find_vars, plan_vars, shop_vars, web_vars>>

\* pdf_bytes = _pdf_cache[plan_hash] and the response with the cached bytes;
\* KeyError when the key is gone, caught by the handler: 500
ReadStep(t) ==
    /\ exports[t].pc = "read"
    /\ exports' = [exports EXCEPT ![t].pc = "finished",
                                  ![t].status =
                                      IF InCache(pdf_cache, exports[t].plan_hash)
                                      THEN 200 ELSE 500]
    /\ UNCHANGED <<pdf_cache, export_count>>
    /\ UNCHANGED <<db_vars, rate_vars, call_vars, doc_vars, find_vars, plan_vars, shop_vars, web_vars>>

\* the PDF is built, then  _pdf_cache[plan_hash] = pdf_bytes
InsertStep(t) ==
    /\ exports[t].pc = "insert"
    /\ pdf_cache' = CachePut(pdf_cache, exports[t].plan_hash)
    /\ exports' = [exports EXCEPT ![t].pc = "check", ![t].built = TRUE]
    /\ UNCHANGED export_count
    /\ UNCHANGED <<db_vars, rate_vars, call_vars, doc_vars, find_vars, plan_vars, shop_vars, web_vars>>

\* if len(_pdf_cache) > _pdf_cache_max_size:  else the response with the new PDF
CheckStep(t) ==
    /\ exports[t].pc = "check"
    /\ exports' = IF OverLimit(pdf_cache)
                  THEN [exports EXCEPT ![t].pc = "oldest"]
                  ELSE [exports EXCEPT ![t].pc = "finished", ![t].status = 200]
    /\ UNCHANGED <<pdf_cache, export_count>>
    /\ UNCHANGED <<db_vars, rate_vars, call_vars, doc_vars, find_vars, plan_vars, shop_vars, web_vars>>

\* first_key = next(iter(_pdf_cache)); StopIteration on an empty dict, caught
\* by the handler: 500
OldestStep(t) ==
    /\ exports[t].pc = "oldest"
    /\ exports' = IF pdf_cache = <<>>
                  THEN [exports EXCEPT ![t].pc = "finished", ![t].status = 500]
                  ELSE [exports EXCEPT ![t].pc = "delete",
                                       ![t].first_key = FirstKey(pdf_cache)]
    /\ UNCHANGED <<pdf_cache, export_count>>
    /\ UNCHANGED <<db_vars, rate_vars, call_vars, doc_vars, find_vars, plan_vars, shop_vars, web_vars>>

\* del _pdf_cache[first_key] and the response with the new PDF; KeyError when
\* the key is gone, caught by the handler: 500
DeleteStep(t) ==
    /\ exports[t].pc = "delete"
    /\ IF InCache(pdf_cache, exports[t].first_key)
       THEN /\ pdf_cache' = CacheDelete(pdf_cache, exports[t].first_key)
            /\ exports' = [exports EXCEPT ![t].pc = "finished", ![t].status = 200]
       ELSE /\ pdf_cache' = pdf_cache
            /\ exports' = [exports EXCEPT ![t].pc = "finished", ![t].status = 500]
    /\ UNCHANGED export_count
    /\ UNCHANGED <<db_vars, rate_vars, call_vars, doc_vars, find_vars, plan_vars, shop_vars, web_vars>>

NextPdf ==
    \E t \in DOMAIN exports :
        \/ StartExport(t)
        \/ LookupStep(t)
        \/ ReadStep(t)
        \/ InsertStep(t)
        \/ CheckStep(t)
        \/ OldestStep(t)
        \/ DeleteStep(t)

\* the server after start: an empty cache; one worker, so that the requests
\* run one after another
InitPdf ==
    /\ PlanCatalog(0, 0)
    /\ storage_faults = {}
    /\ FindIdle
    /\ PlanIdle
    /\ ShopIdle
    /\ RateIdle
    /\ calls = <<>>
    /\ DocIdle
    /\ WebIdle
    /\ pdf_cache = <<>>
    /\ exports = [t \in 1..1 |-> ExportIdle]
    /\ export_count = 0

SpecPdf == InitPdf /\ [][NextPdf]_vars

\* the cache after n requests, run one after another, that exported n
\* different plans (n within the limit)
CacheAfter(n) == [i \in 1..n |-> [key |-> i, at |-> i]]

\* the server with its cache one short of the limit or at the limit, and
\* several workers
InitPdfConcurrent ==
    /\ PlanCatalog(0, 0)
    /\ storage_faults = {}
    /\ FindIdle
    /\ PlanIdle
    /\ ShopIdle
    /\ RateIdle
    /\ calls = <<>>
    /\ DocIdle
    /\ WebIdle
    /\ \E n \in {pdf_cache_max_size - 1, pdf_cache_max_size} :
          pdf_cache = CacheAfter(n) /\ export_count = n
    /\ exports = [t \in 1..MaxThreads |-> ExportIdle]

SpecPdfConcurrent == InitPdfConcurrent /\ [][NextPdf]_vars

-----------------------------------------------------------------------------
(* /rate_recipe *)

RateStatement == <<"rate", "">>

\* if 1 <= rating <= 5
RatingValid(rating) == 1 <= rating /\ rating <= 5

\* (variant: the row is added to a table without the primary key)
RatingsUpsertMutant(rows, recipe_id, rating) == rows \cup {<<recipe_id, rating>>}
\* INSERT OR REPLACE INTO ratings (recipe_id, rating): the primary key is
\* recipe_id, so the row of the same recipe is deleted before the insert
RatingsUpsert(rows, recipe_id, rating) ==
    {row \in rows : row[1] # recipe_id} \cup {<<recipe_id, rating>>}

\* the form field 'rating': missing, a rating, a rating between blanks,
\* numbers outside the range, and a text that is no integer
RatingFieldMenu ==
    { None, Some(<<"1">>), Some(<<"5">>), Some(<<" ", "3", " ">>),
      Some(<<"6">>), Some(<<"x">>) }

\* the recipe ids of the URLs
RatedRecipeMenu == {1, 2}

\* request.form.get('rating', '0')
RatingField(field) == IF IsNone(field) THEN <<"0">> ELSE Val(field)

\* one /rate_recipe request: int() of the field, the range test, the upsert;
\* every exception is answered with success False
RateRecipe ==
    /\ Len(rate_log) < MaxRatings
    /\ \E recipe_id \in RatedRecipeMenu, field \in RatingFieldMenu :
          LET rating == ParseInt(RatingField(field))
              saved == /\ ~IsNone(rating)
                       /\ RatingValid(Val(rating))
                       /\ ~ConnectFails
                       /\ ~ExecuteFails(RateStatement)
          IN  /\ ratings' = IF saved THEN RatingsUpsert(ratings, recipe_id, Val(rating))
                            ELSE ratings
              /\ rate_log' = Append(rate_log, [recipe_id |-> recipe_id, rating |-> field,
                                               success |-> saved])
    /\ UNCHANGED <<db_vars, call_vars, doc_vars, find_vars, plan_vars, ext_vars>>

\* the ratings table as populate_ratings leaves it for the catalog's
\* recipes, or without rows
InitRate ==
    /\ PlanCatalog(2, 1)
    /\ storage_faults = {}
    /\ FindIdle
    /\ PlanIdle
    /\ ShopIdle
    /\ WebIdle
    /\ PdfIdle
    /\ ratings \in {{}, {<<1, 4>>, <<2, 5>>}}
    /\ rate_log = <<>>
    /\ calls = <<>>
    /\ DocIdle

SpecRate == InitRate /\ [][RateRecipe]_vars

-----------------------------------------------------------------------------
(* generate_meal_plan called by several requests at the same time *)

\* a worker that has not called generate_meal_plan
CallIdle ==
    [pc |-> "idle", days |-> 0, ingredients |-> None, dietary_prefs |-> None, race |-> None,
     recipes_by_type |-> <<>>, fallback_by_type |-> <<>>, used_recipe_ids |-> {},
     meal_plan |-> <<>>, day |-> 0, slot |-> 0, selections |-> <<>>]

\* (variant: one used set for the whole process)
UsedSeenMutant(cs, t) == UNION {cs[w].used_recipe_ids : w \in DOMAIN cs}
\* used_recipe_ids is a local of the call: the set worker t reads
UsedSeen(cs, t) == cs[t].used_recipe_ids

\* the arguments of the calls, each for MaxPlanDays days: no filter, or a
\* dietary filter
CallMenu ==
    { [ingredients |-> None, dietary_prefs |-> Some(<<>>), race |-> None],
      [ingredients |-> None, dietary_prefs |-> Some(<<"vegan">>), race |-> None] }

\* worker t enters generate_meal_plan and runs its queries
CallPrefetch(t) ==
    /\ calls[t].pc = "idle"
    /\ \E n \in {MaxPlanDays}, a \in CallMenu :
          calls' = [calls EXCEPT ![t] =
              IF ConnectFails
              THEN [@ EXCEPT !.pc = "failed"]
              ELSE [pc |-> "loop", days |-> n, ingredients |-> a.ingredients,
                    dietary_prefs |-> a.dietary_prefs, race |-> a.race,
                    recipes_by_type |->
                        [mt \in Range(meal_types) |->
                            FindOutcome(PoolStatement("primary", mt), a.ingredients,
                                        a.dietary_prefs, a.race, Some(mt)).rows],
                    fallback_by_type |->
                        [mt \in Range(meal_types) |->
                            FindOutcome(PoolStatement("fallback", mt),
                                        None, None, None, Some(mt)).rows],
                    used_recipe_ids |-> {}, meal_plan |-> EmptyDict,
                    day |-> 1, slot |-> 1, selections |-> <<>>]]
    /\ UNCHANGED <<db_vars, find_vars, plan_vars, ext_vars, rate_vars, doc_vars>>

\* the loop variables of a call after the slot (day, slot)
AdvanceCall(c) ==
    IF c.slot < Len(meal_types) THEN [c EXCEPT !.slot = @ + 1]
    ELSE IF c.day < c.days THEN [c EXCEPT !.slot = 1, !.day = @ + 1]
    ELSE [c EXCEPT !.pc = "done"]

\* one iteration of the inner loop of worker t's call
CallSelectSlot(t) ==
    /\ calls[t].pc = "loop"
    /\ LET c == calls[t]
           mt == meal_types[c.slot]
           plan0 == OpenDay(c.meal_plan, c.day, c.slot)
           candidates == Candidates(c.recipes_by_type[mt], c.fallback_by_type[mt],
                                    UsedSeen(calls, t))
           entry(picked) == [day |-> c.day, meal_type |-> mt,
                             used_before |-> c.used_recipe_ids, id |-> picked]
       IN  IF HasCandidates(candidates)
           THEN \E i \in 1..Len(candidates) :
                    calls' = [calls EXCEPT ![t] =
                        AdvanceCall([c EXCEPT
                            !.meal_plan = SetSlot(plan0, c.day, mt, candidates[i]),
                            !.used_recipe_ids = UsedAfter(c.used_recipe_ids, candidates[i]),
                            !.selections = Append(c.selections, entry(Some(candidates[i])))])]
           ELSE calls' = [calls EXCEPT ![t] =
                    AdvanceCall([c EXCEPT
                        !.meal_plan = plan0,
                        !.selections = Append(c.selections, entry(None))])]
    /\ UNCHANGED <<db_vars, find_vars, plan_vars, ext_vars, rate_vars, doc_vars>>

NextCalls == \E t \in DOMAIN calls : CallPrefetch(t) \/ CallSelectSlot(t)

\* several workers, none inside generate_meal_plan yet
InitCalls ==
    /\ PlanCatalog(2, 1)
    /\ storage_faults = {}
    /\ FindIdle
    /\ PlanIdle
    /\ ShopIdle
    /\ RateIdle
    /\ WebIdle
    /\ PdfIdle
    /\ calls = [t \in 1..MaxThreads |-> CallIdle]
    /\ DocIdle

SpecPlanConcurrent == InitCalls /\ [][NextCalls]_vars

-----------------------------------------------------------------------------
(* The routes that write and read the session: /generate_plan,              *)
(* /generate_sample, /import_json, /export_pdf and /export_json, one action  *)
(* per request, served one after another                                     *)

\* the plans generate_meal_plan can return when it runs alone from the slot
\* (d, s) on, with the used set and the plan built so far
RECURSIVE PlansAlone(_, _, _, _, _, _, _)
PlansAlone(n, primary, fallback, d, s, used, plan) ==
    IF d > n THEN {plan}
    ELSE LET mt == meal_types[s]
             plan0 == OpenDay(plan, d, s)
             candidates == Candidates(primary[mt], fallback[mt], used)
             nd == IF s < Len(meal_types) THEN d ELSE d + 1
             ns == IF s < Len(meal_types) THEN s + 1 ELSE 1
         IN  IF candidates = <<>>
             THEN PlansAlone(n, primary, fallback, nd, ns, used, plan0)
             ELSE UNION {PlansAlone(n, primary, fallback, nd, ns, used \cup {candidates[i]},
                                    SetSlot(plan0, d, mt, candidates[i])) :
                             i \in 1..Len(candidates)}

\* the pools generate_meal_plan fetches: one query per meal type
PoolsOf(kind, ingredients_arg, prefs_arg, race_arg) ==
    [mt \in Range(meal_types) |->
        FindOutcome(PoolStatement(kind, mt), ingredients_arg, prefs_arg, race_arg,
                    Some(mt)).rows]

\* generate_meal_plan(days, ingredients, dietary_prefs, race): the plans the
\* call can return, one for each outcome of its random choices
generate_meal_plan(n, ingredients_arg, prefs_arg, race_arg) ==
    PlansAlone(n, PoolsOf("primary", ingredients_arg, prefs_arg, race_arg),
               PoolsOf("fallback", None, None, None), 1, 1, {}, EmptyDict)

\* (variant: the plan is dropped from the session once it was downloaded)
SessionAfterExportMutant(s) == FreshSession
\* the session after /export_pdf or /export_json: both only read it
SessionAfterExport(s) == s

\* session['current_meal_plan'], session['current_shopping_list'] and
\* session['plan_metadata'] are assigned
StoreSession(plan, shopping, metadata) ==
    [current_meal_plan |-> Some(plan), current_shopping_list |-> Some(shopping),
     plan_metadata |-> Some(metadata)]

\* session.get(key, {})
SessionGet(s, key) == IF IsNone(s[key]) THEN EmptyDict ELSE Val(s[key])

\* hashlib.md5(json.dumps(meal_plan, sort_keys=True)): equal plans have equal
\* hashes; two different plans are taken to have different hashes
PlanHash(plan) == plan

\* metadata.get(key, 'N/A') as the f-string writes it
MetadataText(metadata, key) ==
    IF key \notin DOMAIN metadata THEN <<"N", "/", "A">>
    ELSE IF key = "days" THEN IntText(metadata[key])
    ELSE IF IsNone(metadata[key]) THEN <<"N", "o", "n", "e">>
    ELSE <<Val(metadata[key])>>

\* the story of the PDF: the metadata lines, the plan's days with the rows of
\* their recipes, and the shopping list's categories that have ingredients
RenderPdf(plan, shopping, metadata) ==
    [duration |-> MetadataText(metadata, "days"),
     dietary_prefs |-> IF "dietary_prefs" \in DOMAIN metadata
                       THEN metadata["dietary_prefs"] ELSE <<>>,
     race |-> MetadataText(metadata, "race"),
     days |-> PlanItems(plan),
     shopping_list |-> [c \in {k \in DOMAIN shopping : shopping[k] # <<>>} |-> shopping[c]]]

\* the body of /export_json
RenderJson(s) ==
    [meal_plan |-> Val(s.current_meal_plan),
     shopping_list |-> SessionGet(s, "current_shopping_list"),
     metadata |-> SessionGet(s, "plan_metadata")]

\* the forms of the /generate_plan requests of a session: no pantry or rice
\* in the pantry, for one day, and two forms with invalid days
SessionForms ==
    { [ingredients |-> i, dietary_prefs |-> <<>>, race |-> None, days |-> <<"1">>] :
          i \in {<<>>, <<" ","R","i","c","e",","," ",",">>} }
        \cup { [ingredients |-> <<>>, dietary_prefs |-> <<>>, race |-> None, days |-> d] :
                   d \in {<<"0">>, <<"x">>} }

\* one /generate_plan request, from the form to the page
ServeGeneratePlan ==
    /\ \E form \in SessionForms :
          LET n == ParseInt(form.days)
              pantry == ParseIngredients(form.ingredients)
              prefs == Some(form.dietary_prefs)
          IN  IF IsNone(n)
              THEN response' = "invalid_input" /\ session' = session
              ELSE IF ~DaysValid(Val(n))
              THEN response' = "days_error" /\ session' = session
              ELSE IF ConnectFails
              THEN response' = "generate_error" /\ session' = session
              ELSE \E plan \in generate_meal_plan(Val(n), pantry, prefs, form.race) :
                      LET shopping == calculate_missing_ingredients(PlanItems(plan), pantry)
                      IN  IF plan = EmptyDict
                          THEN response' = "could_not_generate" /\ session' = session
                          ELSE IF shopping.raised
                          THEN response' = "generate_error" /\ session' = session
                          ELSE /\ response' = "meal_plan"
                               /\ session' = StoreSession(plan, shopping.value,
                                      [days |-> Val(n),
                                       ingredients |-> IF TruthyList(pantry)
                                                       THEN Val(pantry) ELSE <<>>,
                                       dietary_prefs |-> form.dietary_prefs,
                                       race |-> form.race])
    /\ download' = None
    /\ UNCHANGED <<pdf_bytes, pdf_vars>>
    /\ UNCHANGED <<db_vars, find_vars, plan_vars, shop_vars, rate_vars, call_vars>>

\* culture_map, on lower-cased keys
culture_map ==
    [c \in { <<"a","s","i","a","n">>, <<"h","i","s","p","a","n","i","c">>,
             <<"a","f","r","i","c","a","n">>,
             <<"m","i","d","d","l","e","-","e","a","s","t","e","r","n">>,
             <<"c","a","u","c","a","s","i","a","n">> } |->
        IF c = <<"a","s","i","a","n">> THEN "Asian"
        ELSE IF c = <<"h","i","s","p","a","n","i","c">> THEN "Hispanic"
        ELSE IF c = <<"a","f","r","i","c","a","n">> THEN "African"
        ELSE IF c = <<"c","a","u","c","a","s","i","a","n">> THEN "Caucasian"
        ELSE "Middle Eastern"]

\* the cultures of the /generate_sample URLs: a known one, written with a
\* capital, and an unknown one
CultureMenu == { <<"A","s","i","a","n">>, <<"m","a","r","s">> }

\* one /generate_sample/<culture> request; the route has no try block, an
\* exception is answered by the framework with status 500
ServeGenerateSample ==
    /\ \E culture \in CultureMenu :
          IF LowerStr(culture) \notin DOMAIN culture_map
          THEN response' = "culture_not_found" /\ session' = session
          ELSE IF ConnectFails
          THEN response' = "500" /\ session' = session
          ELSE \E plan \in generate_meal_plan(SampleDays, None, None,
                                              Some(culture_map[LowerStr(culture)])) :
                  LET shopping == calculate_missing_ingredients(PlanItems(plan), Some(<<>>))
                  IN  IF shopping.raised
                      THEN response' = "500" /\ session' = session
                      ELSE /\ response' = "meal_plan"
                           /\ session' = StoreSession(plan, shopping.value,
                                  [days |-> SampleDays, ingredients |-> <<>>,
                                   dietary_prefs |-> <<>>,
                                   race |-> Some(culture_map[LowerStr(culture)]),
                                   sample_plan |-> TRUE])
    /\ download' = None
    /\ UNCHANGED <<pdf_bytes, pdf_vars>>
    /\ UNCHANGED <<db_vars, find_vars, plan_vars, shop_vars, rate_vars, call_vars>>

\* a plan as a JSON file holds it: breakfast recipe 1 and drink recipe 3 on
\* the one day
FilePlan ==
    [k \in {DayKey(1)} |->
        [mt \in {"breakfast", "drink"} |-> IF mt = "breakfast" THEN 1 ELSE 3]]

\* the uploads of the /import_json requests: no file, a file whose name does
\* not end in .json, JSON without the key meal_plan, a plan alone, and a plan
\* with a shopping list and metadata
UploadMenu ==
    { [file |-> None],
      [file |-> Some([json_name |-> FALSE, data |-> EmptyDict])],
      [file |-> Some([json_name |-> TRUE, data |-> [shopping_list |-> EmptyDict]])],
      [file |-> Some([json_name |-> TRUE, data |-> [meal_plan |-> FilePlan]])],
      [file |-> Some([json_name |-> TRUE,
                      data |-> [meal_plan |-> FilePlan,
                                shopping_list |->
                                    [c \in {"vegetable"} |-> << <<"k","a","l","e">> >>],
                                metadata |-> [days |-> 3]]])] }

\* data.get(key, {})
DataGet(data, key) == IF key \in DOMAIN data THEN data[key] ELSE EmptyDict

\* one /import_json request
ServeImportJson ==
    /\ \E upload \in UploadMenu :
          IF IsNone(upload.file)
          THEN response' = "no_file" /\ session' = session
          ELSE IF ~Val(upload.file).json_name
          THEN response' = "not_json" /\ session' = session
          ELSE IF "meal_plan" \notin DOMAIN Val(upload.file).data
          THEN response' = "invalid_json" /\ session' = session
          ELSE /\ response' = "meal_plan"
               /\ session' = StoreSession(Val(upload.file).data.meal_plan,
                                          DataGet(Val(upload.file).data, "shopping_list"),
                                          DataGet(Val(upload.file).data, "metadata"))
    /\ download' = None
    /\ UNCHANGED <<pdf_bytes, pdf_vars>>
    /\ UNCHANGED <<db_vars, find_vars, plan_vars, shop_vars, rate_vars, call_vars>>

\* one /export_pdf request: a hit sends the stored PDF; a miss builds the PDF
\* from the session, stores it under the plan's hash, evicts and sends it
ServeExportPdf ==
    /\ IF IsNone(session.current_meal_plan)
       THEN /\ response' = "no_plan"
            /\ download' = None
            /\ UNCHANGED <<pdf_cache, pdf_bytes>>
       ELSE LET plan_hash == PlanHash(Val(session.current_meal_plan))
                pdf == RenderPdf(Val(session.current_meal_plan),
                                 SessionGet(session, "current_shopping_list"),
                                 SessionGet(session, "plan_metadata"))
                put == CachePut(pdf_cache, plan_hash)
                stored == [h \in (DOMAIN pdf_bytes) \cup {plan_hash} |->
                              IF h = plan_hash THEN pdf ELSE pdf_bytes[h]]
            IN  IF InCache(pdf_cache, plan_hash)
                THEN /\ response' = "pdf"
                     /\ download' = Some(pdf_bytes[plan_hash])
                     /\ UNCHANGED <<pdf_cache, pdf_bytes>>
                ELSE /\ Len(pdf_cache) < MaxCached
                     /\ response' = "pdf"
                     /\ download' = Some(pdf)
                     /\ IF OverLimit(put)
                        THEN /\ pdf_cache' = CacheDelete(put, FirstKey(put))
                             /\ pdf_bytes' = [h \in (DOMAIN stored) \ {FirstKey(put)} |->
                                                 stored[h]]
                        ELSE /\ pdf_cache' = put
                             /\ pdf_bytes' = stored
    /\ session' = SessionAfterExport(session)
    /\ UNCHANGED <<exports, export_count>>
    /\ UNCHANGED <<db_vars, find_vars, plan_vars, shop_vars, rate_vars, call_vars>>

\* one /export_json request
ServeExportJson ==
    /\ IF IsNone(session.current_meal_plan)
       THEN response' = "no_plan" /\ download' = None
       ELSE response' = "json" /\ download' = Some(RenderJson(session))
    /\ session' = SessionAfterExport(session)
    /\ UNCHANGED <<pdf_bytes, pdf_vars>>
    /\ UNCHANGED <<db_vars, find_vars, plan_vars, shop_vars, rate_vars, call_vars>>

NextSession ==
    \/ ServeGeneratePlan
    \/ ServeGenerateSample
    \/ ServeImportJson
    \/ ServeExportPdf
    \/ ServeExportJson

\* a client with a new session, the server's cache empty
InitSession ==
    /\ PlanCatalog(2, 1)
    /\ storage_faults = {}
    /\ FindIdle
    /\ PlanIdle
    /\ ShopIdle
    /\ RateIdle
    /\ calls = <<>>
    /\ WebIdle
    /\ PdfIdle
    /\ pdf_bytes = <<>>
    /\ download = None

SpecSession == InitSession /\ [][NextSession]_vars

-----------------------------------------------------------------------------
(* The catalog query's contract, stated without the query's own operators *)

\* the ingredient ids of recipe r
IngredientsOf(r) == {ri[2] : ri \in {x \in recipe_ingredients : x[1] = r}}

\* the name contains the trimmed term, without regard to case
NameContains(name, term) == Contains(LowerStr(name), LowerStr(Strip(term)))

\* the term has no LIKE wildcard
WildcardFree(term) == \A i \in 1..Len(term) : term[i] \notin {"%", "_"}

IsBlank(term) == Strip(term) = <<>>

\* ingredient i matches the term: by its name, or as a registered substitute
\* of an ingredient whose name contains the term
MatchesIngredient(i, term) ==
    \/ NameContains(IngName(i), term)
    \/ \E p \in substitutions : p[2] = i /\ NameContains(IngName(p[1]), term)

\* recipe r matches the term by one of its ingredients
MatchesTerm(r, term) == \E i \in IngredientsOf(r) : MatchesIngredient(i, term)

\* the call made was one with ingredient terms only
IngredientCall ==
    /\ query # <<>>
    /\ TruthyList(query.ingredients)
    /\ ~TruthyList(query.dietary_prefs)
    /\ ~TruthyStr(query.race)
    /\ ~TruthyStr(query.meal_type)

QueryTerms == Val(query.ingredients)

\* C7 as amended: with ingredient terms (free of the LIKE wildcards % and _)
\* find_recipes returns exactly the recipes that match AT LEAST ONE term, so a
\* recipe that matches one term but not another is returned.
C7_AnyTerm ==
    (IngredientCall /\ \A k \in 1..Len(QueryTerms) : WildcardFree(QueryTerms[k]))
        => /\ Range(result) =
                 {r \in DOMAIN recipes :
                     \E k \in 1..Len(QueryTerms) : MatchesTerm(r, QueryTerms[k])}
           /\ NoDuplicates(result)

\* C7 as claimed: with several ingredient terms find_recipes returns only
\* recipes that match every term.
C7_EveryTerm ==
    (/\ IngredientCall
     /\ Len(QueryTerms) >= 2
     /\ \A k \in 1..Len(QueryTerms) :
            WildcardFree(QueryTerms[k]) /\ ~IsBlank(QueryTerms[k]))
        => \A r \in Range(result) :
               \A k \in 1..Len(QueryTerms) : MatchesTerm(r, QueryTerms[k])

\* a call with two terms returned a recipe that matches only one of them and
\* left out a recipe that matches neither
C7_Witness ==
    /\ IngredientCall
    /\ Len(QueryTerms) = 2
    /\ \A k \in 1..2 : WildcardFree(QueryTerms[k]) /\ ~IsBlank(QueryTerms[k])
    /\ \E r \in Range(result) :
           MatchesTerm(r, QueryTerms[1]) /\ ~MatchesTerm(r, QueryTerms[2])
    /\ \E r \in DOMAIN recipes : r \notin Range(result) /\ IngredientsOf(r) # {}

\* the terms of a list that are not empty after trimming
DropBlank(terms) == SelectSeq(terms, LAMBDA t : ~IsBlank(t))

C9_DirectedSubstitution ==
    IngredientCall
        => /\ \A p \in substitutions, k \in 1..Len(QueryTerms) :
                  NameContains(IngName(p[1]), QueryTerms[k])
                      => \A r \in DOMAIN recipes :
                             p[2] \in IngredientsOf(r) => r \in Range(result)
           /\ (Len(QueryTerms) = 1 /\ WildcardFree(QueryTerms[1]))
                  => \A p \in substitutions, r \in DOMAIN recipes :
                         (/\ NameContains(IngName(p[2]), QueryTerms[1])
                          /\ ~NameContains(IngName(p[1]), QueryTerms[1])
                          /\ <<p[2], p[1]>> \notin substitutions
                          /\ p[1] \in IngredientsOf(r)
                          /\ \A i \in IngredientsOf(r) :
                                 ~MatchesIngredient(i, QueryTerms[1]))
                             => r \notin Range(result)

\* salmon -> shrimp is registered one way only; the term "Salmon" returned a
\* recipe with shrimp and no salmon
C9_Witness ==
    /\ IngredientCall
    /\ substitutions = {<<1, 2>>}
    /\ QueryTerms = << <<"S","a","l","m","o","n">> >>
    /\ \E r \in Range(result) : IngredientsOf(r) = {2}

\* C10: with a list of dietary tags find_recipes returns only recipes tagged
\* with every listed tag, all of them when no other filter is given, each once.
C10_AllDietaryTags ==
    (query # <<>> /\ TruthyList(query.dietary_prefs))
        => LET prefs == Val(query.dietary_prefs)
               tagged == {r \in DOMAIN recipes :
                             \A i \in 1..Len(prefs) :
                                 <<r, prefs[i]>> \in recipe_dietary_tags}
           IN  /\ Range(result) \subseteq tagged
               /\ (/\ ~TruthyStr(query.race)
                   /\ ~TruthyStr(query.meal_type)
                   /\ ~TruthyList(query.ingredients))
                      => Range(result) = tagged
               /\ NoDuplicates(result)

\* a call with two different tags returned a recipe and left out a recipe that
\* has one tag but not the other
C10_Witness ==
    /\ query # <<>>
    /\ query.dietary_prefs = Some(<<"vegan", "gluten-free">>)
    /\ ~TruthyStr(query.race)
    /\ ~TruthyStr(query.meal_type)
    /\ result # <<>>
    /\ \E r \in DOMAIN recipes :
           /\ <<r, "vegan">> \in recipe_dietary_tags
           /\ <<r, "gluten-free">> \notin recipe_dietary_tags
           /\ r \notin Range(result)

\* C11: the filters of find_recipes combine conjunctively.  The result of a call
\* is the intersection of the results of the calls that pass one of its filters
\* each (cultural tag, dietary tags, meal category, ingredient terms), each
\* recipe once; with no filter present the result is the entire catalog.
C11_Conjunctive ==
    (query # <<>> /\ alone # <<>>)
        => /\ Range(result) =
                 Range(alone.race) \cap Range(alone.dietary_prefs)
                     \cap Range(alone.meal_type) \cap Range(alone.ingredients)
           /\ NoDuplicates(result)
           /\ (/\ ~TruthyStr(query.race)
               /\ ~TruthyList(query.dietary_prefs)
               /\ ~TruthyStr(query.meal_type)
               /\ ~TruthyList(query.ingredients))
                  => Range(result) = DOMAIN recipes

\* a call with all four filters returned a recipe, and each filter alone
\* returns more than the four together
C11_Witness ==
    /\ query # <<>>
    /\ alone # <<>>
    /\ TruthyStr(query.race)
    /\ TruthyList(query.dietary_prefs)
    /\ TruthyStr(query.meal_type)
    /\ TruthyList(query.ingredients)
    /\ result # <<>>
    /\ Range(alone.race) # Range(result)
    /\ Range(alone.dietary_prefs) # Range(result)
    /\ Range(alone.meal_type) # Range(result)
    /\ Range(alone.ingredients) # Range(result)

\* the filter values of the call that match nothing in the catalog
UnknownMealType ==
    TruthyStr(query.meal_type) /\ Val(query.meal_type) \notin Range(meal_types)
UnknownRace ==
    TruthyStr(query.race) /\ \A rr \in recipe_races : rr[2] # Val(query.race)
UnknownDietaryTag ==
    /\ TruthyList(query.dietary_prefs)
    /\ \E k \in 1..Len(Val(query.dietary_prefs)) :
           \A rdt \in recipe_dietary_tags : rdt[2] # Val(query.dietary_prefs)[k]

\* C12: find_recipes called with a filter value that matches nothing in the
\* catalog (a meal category outside the six fixed ones, an unknown cultural or
\* dietary tag) returns an empty result and raises no error.
C12_UnknownFilterEmpty ==
    (query # <<>> /\ (UnknownMealType \/ UnknownRace \/ UnknownDietaryTag))
        => result = <<>> /\ ~find_raised

\* a call with an unknown meal category and no other filter was made on a
\* catalog that holds recipes
C12_Witness ==
    /\ query # <<>>
    /\ UnknownMealType
    /\ ~TruthyStr(query.race)
    /\ ~TruthyList(query.dietary_prefs)
    /\ DOMAIN recipes # {}
    /\ result = <<>>

-----------------------------------------------------------------------------
(* The plan assembler's contract *)

\* generate_meal_plan is inside or past its day loop
InPlan == pc \in {"loop", "done"}

\* the slot (day d, meal type mt) holds a recipe in the plan
SlotFilled(d, mt) ==
    DayKey(d) \in DOMAIN meal_plan /\ mt \in DOMAIN meal_plan[DayKey(d)]

\* the combined primary + fallback pool of a category
Pool(mt) == Range(recipes_by_type[mt]) \cup Range(fallback_by_type[mt])

\* the days on which the slot of mt holds recipe r
DaysHolding(mt, r) ==
    {d \in 1..days : SlotFilled(d, mt) /\ meal_plan[DayKey(d)][mt] = r}

\* the request carried no filter
NoFilters ==
    ~TruthyList(ingredients) /\ ~TruthyList(dietary_prefs) /\ ~TruthyStr(race)

\* C1 as amended: generate_plan returns exactly `days` day entries labelled
\* "Day 1" .. "Day N"; the keys of a day entry are among the six categories,
\* and a category is a key exactly when a recipe was selected for its slot (a
\* slot without a recipe has no key).
C1_DayEntries ==
    /\ pc = "done" => DOMAIN meal_plan = {DayKey(d) : d \in 1..days}
    /\ \A k \in DOMAIN meal_plan : DOMAIN meal_plan[k] \subseteq Range(meal_types)
    /\ \A i \in 1..Len(selections) :
           LET e == selections[i]
           IN  /\ SlotFilled(e.day, e.meal_type) <=> e.id # None
               /\ e.id # None => meal_plan[DayKey(e.day)][e.meal_type] = Val(e.id)
    /\ pc = "done" => Len(selections) = days * Len(meal_types)

\* C1 as claimed: the returned plan has exactly `days` day entries and every
\* day entry has exactly the six category keys, also for slots without a recipe.
C1_SixKeys ==
    pc = "done"
        => /\ DOMAIN meal_plan = {DayKey(d) : d \in 1..days}
           /\ \A k \in DOMAIN meal_plan : DOMAIN meal_plan[k] = Range(meal_types)

\* a plan of several days was returned with a slot that holds a recipe and a
\* slot that holds none
C1_Witness ==
    /\ pc = "done"
    /\ days >= 2
    /\ \E i, j \in 1..Len(selections) :
           selections[i].id # None /\ selections[j].id = None

\* C2: no-repeat invariant.  For every category whose combined pool has at
\* least as many recipes as the plan has days, no recipe of it is in two slots
\* of the plan.
C2_NoRepeat ==
    InPlan
        => \A mt \in Range(meal_types) :
               Cardinality(Pool(mt)) >= days
                   => \A r \in Pool(mt) :
                          /\ Cardinality(DaysHolding(mt, r)) <= 1
                          /\ \A other \in Range(meal_types) \ {mt} :
                                 DaysHolding(other, r) = {}

\* a plan of several days was returned in which a category with a large enough
\* pool holds a recipe on every day
C2_Witness ==
    /\ pc = "done"
    /\ days >= 2
    /\ \E mt \in Range(meal_types) :
           /\ Cardinality(Pool(mt)) >= days
           /\ \A d \in 1..days : SlotFilled(d, mt)

ThreeBreakfastsFiveDays ==
    /\ pc = "done"
    /\ DOMAIN recipes = {1, 2, 3}
    /\ \A r \in DOMAIN recipes : recipes[r] = "breakfast"
    /\ days = 5
    /\ NoFilters

C5_RepeatOnlyAfterAll ==
    InPlan
        => \A mt \in Range(meal_types) :
               Cardinality(Pool(mt)) < days
                   => \A d1, d2 \in 1..days :
                          (/\ d1 < d2
                           /\ SlotFilled(d1, mt)
                           /\ SlotFilled(d2, mt)
                           /\ meal_plan[DayKey(d1)][mt] = meal_plan[DayKey(d2)][mt])
                              => \A r \in Pool(mt) :
                                     \E d \in 1..(d2 - 1) : d \in DaysHolding(mt, r)

\* a plan was returned for more days than a category's pool has recipes, and
\* every recipe of that pool (two or more) was placed
C5_Witness ==
    /\ pc = "done"
    /\ \E mt \in Range(meal_types) :
           /\ Cardinality(Pool(mt)) >= 2
           /\ Cardinality(Pool(mt)) < days
           /\ \A r \in Pool(mt) : DaysHolding(mt, r) # {}

\* C6: if the catalog holds no recipe of a category (both pools empty),
\* generate_plan raises no error, the slot of that category is absent on every
\* day, and the slots of the other categories are filled as long as their
\* pools have an unused recipe.
C6_EmptyCategory ==
    /\ ~raised
    /\ pc # "error"
    /\ InPlan
           => \A mt \in Range(meal_types) :
                  /\ Pool(mt) = {} => \A d \in 1..days : ~SlotFilled(d, mt)
                  /\ \A i \in 1..Len(selections) :
                         LET e == selections[i]
                         IN  (e.meal_type = mt /\ ~(Pool(mt) \subseteq e.used_before))
                                 => SlotFilled(e.day, mt)

\* a plan of several days was returned from a catalog without recipes of one
\* category, with the slot of another category filled on the first day
C6_Witness ==
    /\ pc = "done"
    /\ days >= 2
    /\ \E mt \in Range(meal_types) : Pool(mt) = {}
    /\ \E mt \in Range(meal_types) : SlotFilled(1, mt)

\* a catalog query of generate_plan fails with a storage error
QueryFails ==
    \/ ConnectFails
    \/ \E kind \in {"primary", "fallback"}, mt \in Range(meal_types) :
           PoolStatement(kind, mt) \in storage_faults

\* C13 as claimed: if a catalog query fails with a storage error during
\* generate_plan, the failure propagates to the caller and no plan is returned:
\* the assembler never runs its day loop on the pools of a failed query, no plan
\* is rendered and none is stored in the session.
C13_FailurePropagates ==
    QueryFails
        => /\ pc \notin {"loop", "done", "rendered"}
           /\ response # "meal_plan"
           /\ session = FreshSession

\* the texts of the form field 'days' that are below 1, above the limit or
\* not an integer
InvalidDaysFields ==
    { <<"0">>, <<"3", "1">>, <<"-", "1">>, <<"2", ".", "5">>, <<"x">>, <<>> }

\* C18: a generate_plan request whose day count is below 1, above 30 or not an
\* integer is rejected before the plan assembler runs: generate_meal_plan is not
\* called (its pools, used set and plan are never set up), an error is
\* rendered, and the plan, shopping list and metadata stored in the session
\* stay unchanged.
C18_InvalidDaysRejected ==
    /\ [][(request = <<>> /\ request' # <<>> /\ request'.days \in InvalidDaysFields)
             => /\ pc' = "rejected"
                /\ response' \in {"days_error", "invalid_input"}
                /\ session' = session
                /\ UNCHANGED <<recipes_by_type, fallback_by_type, used_recipe_ids,
                               meal_plan, selections>>]_vars
    /\ [](pc = "rejected"
             => /\ recipes_by_type = <<>>
                /\ fallback_by_type = <<>>
                /\ meal_plan = <<>>
                /\ selections = <<>>
                /\ response \in {"days_error", "invalid_input"}
                /\ session \in {FreshSession, PriorSession})

\* a request for 31 days was rejected while the session held an earlier plan
C18_Witness ==
    /\ pc = "rejected"
    /\ request # <<>>
    /\ request.days = <<"3", "1">>
    /\ response = "days_error"
    /\ session = PriorSession

-----------------------------------------------------------------------------
(* The PDF cache's contract *)

\* no request is being served
Quiescent == \A t \in DOMAIN exports : exports[t].pc \in {"idle", "finished"}

\* the cache without its i-th entry
WithoutEntry(cache, i) == SubSeq(cache, 1, i - 1) \o SubSeq(cache, i + 1, Len(cache))

\* C19: the PDF output cache is bounded with oldest-first eviction.  With the
\* export_pdf requests run one after another, the cache holds at most 50
\* entries whenever no request is being served (and never more than 51); an
\* entry leaves the cache only when an insert made it exceed 50, and then
\* exactly one entry is removed, the one inserted earliest, which is never the
\* entry just inserted.
C19_BoundedOldestFirst ==
    /\ [](Quiescent => Len(pdf_cache) <= 50)
    /\ [](Len(pdf_cache) <= 51)
    /\ [](\A i, j \in 1..Len(pdf_cache) : i # j => pdf_cache[i].key # pdf_cache[j].key)
    /\ [][\A t \in DOMAIN exports :
             (exports[t].pc = "check" /\ Len(pdf_cache) > 50)
                 => exports'[t].pc \notin {"idle", "finished"}]_vars
    /\ [][pdf_cache' # pdf_cache /\ Len(pdf_cache') <= Len(pdf_cache)
             => /\ Len(pdf_cache) = 51
                /\ \E i \in 1..Len(pdf_cache) :
                       /\ pdf_cache' = WithoutEntry(pdf_cache, i)
                       /\ \A j \in 1..Len(pdf_cache) : pdf_cache[i].at <= pdf_cache[j].at
                       /\ \A t \in DOMAIN exports :
                              exports[t].pc = "delete"
                                  => pdf_cache[i].key # exports[t].plan_hash]_vars

\* the 51st plan was exported: the cache holds 50 entries, the first plan is
\* gone and the new one is in
C19_Witness ==
    /\ Quiescent
    /\ Len(pdf_cache) = 50
    /\ ~InCache(pdf_cache, 1)
    /\ InCache(pdf_cache, 51)
    /\ \E t \in DOMAIN exports :
           exports[t].plan_hash = 51 /\ exports[t].built /\ exports[t].status = 200

\* C20 as claimed: the PDF cache is safe for concurrent use.  When export_pdf
\* requests interleave statement by statement, no request is answered 500
\* because of another request's insert or eviction, and once all requests have
\* finished the cache holds at most 50 entries.
C20_ConcurrentSafe ==
    /\ \A t \in DOMAIN exports : exports[t].status # 500
    /\ Quiescent => Len(pdf_cache) <= 50

-----------------------------------------------------------------------------
(* The shopping list's contract *)

\* a call of missing_ingredients was made
ShopCalled == shop_call # <<>>

ShopPlan == shop_call.meal_plan

\* the pantry of the call, [] when none was given
ShopPantry ==
    IF IsNone(shop_call.user_ingredients) THEN <<>> ELSE Val(shop_call.user_ingredients)

\* the recipes referenced anywhere in a plan
RecipesOfPlan(plan) ==
    {r \in DOMAIN recipes :
        \E d \in 1..Len(plan) : \E k \in 1..Len(plan[d]) : plan[d][k][2] = <<r>>}

\* the category names of the ingredients table
Categories == {ingredients_table[i].category : i \in IngredientIds}

\* an ingredient name is held by a pantry
HeldBy(name, pantry) ==
    \E k \in 1..Len(pantry) :
        LET entry == LowerStr(Strip(pantry[k]))
        IN  Contains(LowerStr(name), entry) \/ Contains(entry, LowerStr(name))

\* the names of category c that the plan needs and the pantry does not hold
MissingIn(c, plan, pantry) ==
    {IngName(i) : i \in {j \in IngredientIds :
        /\ ingredients_table[j].category = c
        /\ \E r \in RecipesOfPlan(plan) : <<r, j>> \in recipe_ingredients
        /\ ~HeldBy(IngName(j), pantry)}}

\* the names listed under category c in the returned mapping
Listed(c) == IF c \in DOMAIN shop_result THEN Range(shop_result[c]) ELSE {}

\* C14: missing_ingredients returns, per ingredient category, exactly the
\* ingredients of the plan's recipes that are not held, an ingredient being held
\* iff some trimmed, lower-cased pantry entry is part of its lower-cased name or
\* its lower-cased name is part of such an entry; names keep their original
\* case.  A pantry entry containing "rice" with a recipe needing rice, ginger
\* and broth gives ginger and broth and no rice; pantry "egg" holds "Eggplant".
C14_ExactlyNotHeld ==
    ShopCalled
        => /\ ~shop_raised
           /\ DOMAIN shop_result \subseteq Categories
           /\ \A c \in Categories : Listed(c) = MissingIn(c, ShopPlan, ShopPantry)
           /\ (RecipesOfPlan(ShopPlan) = {1} /\ Range(ShopPantry) = {PantryRice})
                  => /\ Listed("vegetable") = {<<"g","i","n","g","e","r">>}
                     /\ Listed("broth") = {<<"b","r","o","t","h">>}
                     /\ Listed("grain") = {}
           /\ (\E k \in 1..Len(ShopPantry) : ShopPantry[k] = <<"e","g","g">>)
                  => <<"E","g","g","p","l","a","n","t">> \notin Listed("vegetable")

\* the pantry held rice by an entry that contains the name, the plan needed
\* rice, ginger, broth and Eggplant, and Eggplant was returned as written
C14_Witness ==
    /\ ShopCalled
    /\ RecipesOfPlan(ShopPlan) = {1, 2}
    /\ Range(ShopPantry) = {PantryRice}
    /\ Listed("grain") = {}
    /\ Listed("broth") = {<<"b","r","o","t","h">>}
    /\ <<"E","g","g","p","l","a","n","t">> \in Listed("vegetable")

\* all orders of the elements of a list
Orderings(l) ==
    {[i \in 1..Len(l) |-> l[q[i]]] :
        q \in {f \in [1..Len(l) -> 1..Len(l)] :
                  \A i, j \in 1..Len(l) : i # j => f[i] # f[j]}}

Reverse(l) == [i \in 1..Len(l) |-> l[Len(l) + 1 - i]]

\* the plan with the order of its days changed and the order of the slots
\* changed within any of them
Reorderings(plan) ==
    {[d \in 1..Len(p) |-> IF d \in flipped THEN Reverse(p[d]) ELSE p[d]] :
        p \in Orderings(plan), flipped \in SUBSET (1..Len(plan))}

\* C15: aggregation is idempotent and deterministic.  The same call made a
\* second time returns the same output, and the output depends neither on the
\* order of the pantry entries nor on the order of the days and slots of the plan.
C15_OrderIndependent ==
    (ShopCalled /\ shop_again # None)
        => /\ Val(shop_again) = shop_result
           /\ \A pantry \in Orderings(ShopPantry) :
                  calculate_missing_ingredients(ShopPlan, Some(pantry)).value = shop_result
           /\ \A plan \in Reorderings(ShopPlan) :
                  calculate_missing_ingredients(plan, shop_call.user_ingredients).value
                      = shop_result

\* the call was made twice with a pantry of two different entries, one of
\* which holds a needed ingredient, and a plan of two different days
C15_Witness ==
    /\ ShopCalled
    /\ shop_again # None
    /\ Len(ShopPantry) = 2
    /\ ShopPantry[1] # ShopPantry[2]
    /\ ShopPantry[2] = PantryRice
    /\ Len(ShopPlan) = 2
    /\ ShopPlan[1] # ShopPlan[2]
    /\ RecipesOfPlan(ShopPlan) = {1, 2}
    /\ shop_result # EmptyDict

\* the number of slots of the plan that hold recipe r
SlotsHolding(plan, r) ==
    Cardinality({<<d, k>> \in (1..Len(plan)) \X (1..Len(meal_types)) :
                    k <= Len(plan[d]) /\ plan[d][k][2] = <<r>>})

\* C16: in the result of missing_ingredients every category's list is free of
\* duplicates and in ascending name order (an ingredient needed by several
\* recipes, or by a recipe that fills several slots, is listed once), and no
\* category key with an empty list is returned.
C16_SortedNoDuplicates ==
    ShopCalled
        => \A c \in DOMAIN shop_result :
               /\ shop_result[c] # <<>>
               /\ NoDuplicates(shop_result[c])
               /\ \A i \in 1..(Len(shop_result[c]) - 1) :
                      StrLess(shop_result[c][i], shop_result[c][i + 1])

\* rice is needed by two recipes of the plan, one of which fills two slots, and
\* a category lists two names
C16_Witness ==
    /\ ShopCalled
    /\ RecipesOfPlan(ShopPlan) = {1, 2}
    /\ SlotsHolding(ShopPlan, 1) = 2
    /\ "grain" \in DOMAIN shop_result
    /\ shop_result["grain"] = << <<"r","i","c","e">> >>
    /\ "vegetable" \in DOMAIN shop_result
    /\ Len(shop_result["vegetable"]) = 2

\* a day whose slots are all absent: no item, or an item whose value is None
AbsentDays == {<<>>, << <<"breakfast", None>> >>}

\* C17: missing_ingredients raises no error and returns the empty mapping for
\* a plan with no days, for a plan whose slots are all absent and for a plan
\* whose recipes have no ingredients; absent slots contribute nothing, so a day
\* of absent slots added to a plan never changes the result.
C17_EmptyPlans ==
    ShopCalled
        => /\ ~shop_raised
           /\ ShopPlan = <<>> => shop_result = EmptyDict
           /\ Range(ShopPlan) \subseteq AbsentDays => shop_result = EmptyDict
           /\ (\A r \in RecipesOfPlan(ShopPlan) : IngredientsOf(r) = {})
                  => shop_result = EmptyDict
           /\ \A absent \in AbsentDays :
                  /\ calculate_missing_ingredients(Append(ShopPlan, absent),
                                                   shop_call.user_ingredients)
                         = [raised |-> FALSE, value |-> shop_result]
                  /\ calculate_missing_ingredients(<<absent>> \o ShopPlan,
                                                   shop_call.user_ingredients)
                         = [raised |-> FALSE, value |-> shop_result]

\* a plan of a day with a recipe and a day whose only slot is None gave a
\* shopping list
C17_Witness ==
    /\ ShopCalled
    /\ Len(ShopPlan) = 2
    /\ ShopPlan[2] = << <<"breakfast", None>> >>
    /\ RecipesOfPlan(ShopPlan) # {}
    /\ shop_result # EmptyDict
    /\ ~shop_raised

(***************************************************************************)
(* The selection rules of the plan assembler *)
(***************************************************************************)

\* the recipes picked in the slots processed before the i-th
PickedBefore(i) ==
    {Val(selections[j].id) : j \in {k \in 1..(i - 1) : ~IsNone(selections[k].id)}}

\* the unused recipes of the primary pool when the slot of entry e was processed
UnusedPrimary(e) == Range(recipes_by_type[e.meal_type]) \ e.used_before

\* C23: selection priority.  A slot receives a recipe that is not in its
\* category's primary pool only when every recipe of that pool was already in
\* the used set when the slot was processed; whenever an unused primary recipe
\* exists, the slot's recipe is one of the unused primary recipes.
C23_PrimaryFirst ==
    InPlan
        => \A i \in 1..Len(selections) :
               LET e == selections[i]
               IN  /\ UnusedPrimary(e) # {}
                          => ~IsNone(e.id) /\ Val(e.id) \in UnusedPrimary(e)
                   /\ (~IsNone(e.id) /\ Val(e.id) \notin Range(recipes_by_type[e.meal_type]))
                          => Range(recipes_by_type[e.meal_type]) \subseteq e.used_before

\* a plan was returned in which one slot took an unused primary recipe and a
\* later slot of the same category, its primary pool used up, took a recipe
\* from outside the primary pool
C23_Witness ==
    /\ pc = "done"
    /\ \E i, j \in 1..Len(selections) :
           /\ i < j
           /\ selections[i].meal_type = selections[j].meal_type
           /\ ~IsNone(selections[i].id)
           /\ Val(selections[i].id) \in Range(recipes_by_type[selections[i].meal_type])
           /\ ~IsNone(selections[j].id)
           /\ Val(selections[j].id) \notin Range(recipes_by_type[selections[j].meal_type])

\* C24: the used set starts empty, is one set for all days and categories of
\* the call, only grows, and after each slot equals the set of the recipes
\* picked in the slots processed so far: each pick is in the set before the
\* next slot is processed and nothing else is ever added.
C24_UsedSetIsPicks ==
    InPlan
        => /\ \A i \in 1..Len(selections) : selections[i].used_before = PickedBefore(i)
           /\ used_recipe_ids = PickedBefore(Len(selections) + 1)
           /\ \A i, j \in 1..Len(selections) :
                  i <= j => selections[i].used_before \subseteq selections[j].used_before

\* a plan of several days was returned, with recipes of two categories in the
\* used set and a slot of the second day processed with the first day's picks
\* in the set
C24_Witness ==
    /\ pc = "done"
    /\ days >= 2
    /\ \E r1, r2 \in used_recipe_ids : recipes[r1] # recipes[r2]
    /\ \E i \in 1..Len(selections) :
           /\ selections[i].day = 2
           /\ Cardinality(selections[i].used_before) >= 2

\* C29: when the catalog queries succeed, the primary pool of every category
\* is a subset of its fallback pool whatever the caller's filters are, every
\* recipe of either pool has that category as its meal type, and so every
\* recipe placed in a slot has the slot's category.
C29_PrimaryWithinFallback ==
    (InPlan /\ ~QueryFails)
        => \A mt \in Range(meal_types) :
               /\ Range(recipes_by_type[mt]) \subseteq Range(fallback_by_type[mt])
               /\ \A r \in Pool(mt) : recipes[r] = mt
               /\ \A d \in 1..days :
                      SlotFilled(d, mt) => recipes[meal_plan[DayKey(d)][mt]] = mt

\* a plan was returned for a request with a filter that kept some recipes of a
\* category out of its primary pool and let others in
C29_Witness ==
    /\ pc = "done"
    /\ ~NoFilters
    /\ \E mt \in Range(meal_types) :
           /\ recipes_by_type[mt] # <<>>
           /\ Range(recipes_by_type[mt]) # Range(fallback_by_type[mt])
           /\ SlotFilled(1, mt)

\* the smaller of two numbers
Smaller(a, b) == IF a <= b THEN a ELSE b

\* C30: in the plan returned, for every category the days whose slot holds a
\* recipe are exactly Day 1 .. Day k with k the smaller of `days` and the size
\* of the category's fallback pool: a slot left empty on one day is empty on
\* every later day, and the recipes of the k filled slots are pairwise distinct.
C30_FilledDaysArePrefix ==
    (pc = "done" /\ ~QueryFails)
        => \A mt \in Range(meal_types) :
               LET k == Smaller(days, Len(fallback_by_type[mt]))
               IN  /\ \A d \in 1..days : SlotFilled(d, mt) <=> d <= k
                   /\ \A d1, d2 \in 1..k :
                          d1 # d2 => meal_plan[DayKey(d1)][mt] # meal_plan[DayKey(d2)][mt]

\* a plan was returned in which a category with two or more recipes has its
\* slot filled on the first days and empty on the last
C30_Witness ==
    /\ pc = "done"
    /\ \E mt \in Range(meal_types) :
           /\ Len(fallback_by_type[mt]) >= 2
           /\ Len(fallback_by_type[mt]) < days
           /\ SlotFilled(Len(fallback_by_type[mt]), mt)
           /\ ~SlotFilled(days, mt)

RatingOf(field) == ParseInt(IF IsNone(field) THEN <<"0">> ELSE Val(field))

\* the request carried a rating in 1..5
InRange(call) ==
    ~IsNone(RatingOf(call.rating)) /\ Val(RatingOf(call.rating)) \in 1..5

\* the positions in the log of the requests for recipe r with a rating in 1..5
ValidCalls(r) == {i \in 1..Len(rate_log) : rate_log[i].recipe_id = r /\ InRange(rate_log[i])}

\* the ratings stored for recipe r
StoredFor(r) == {row[2] : row \in {x \in ratings : x[1] = r}}

\* a request was served in this step
Rated == Len(rate_log') = Len(rate_log) + 1

\* C21: set_rating is an idempotent upsert with last write wins.  After any
\* sequence of rate_recipe calls a recipe has at most one stored rating, it is
\* in 1..5 and equals the rating of the most recent call for that recipe whose
\* rating was in 1..5; a call with a rating outside 1..5 or not an integer
\* reports failure and leaves every stored rating unchanged; repeating a call
\* leaves the state unchanged.
C21_UpsertLastWriteWins ==
    /\ [](\A r \in RatedRecipeMenu :
              /\ Cardinality(StoredFor(r)) <= 1
              /\ StoredFor(r) \subseteq 1..5
              /\ ValidCalls(r) # {}
                     => StoredFor(r) =
                            {Val(RatingOf(rate_log[Largest(ValidCalls(r))].rating))})
    /\ [](\A i \in 1..Len(rate_log) : rate_log[i].success <=> InRange(rate_log[i]))
    /\ [][(Rated /\ ~InRange(rate_log'[Len(rate_log')])) => ratings' = ratings]_vars
    /\ [][(Rated /\ rate_log # <<>>
                 /\ rate_log'[Len(rate_log')] = rate_log[Len(rate_log)])
              => ratings' = ratings]_vars

\* a recipe that had a rating was rated twice with different ratings, then
\* with a number outside the range, and holds the second rating
C21_Witness ==
    /\ Len(rate_log) = 3
    /\ rate_log[1].recipe_id = 1 /\ rate_log[1].rating = Some(<<"1">>)
    /\ rate_log[2].recipe_id = 1 /\ rate_log[2].rating = Some(<<" ", "3", " ">>)
    /\ rate_log[3].recipe_id = 1 /\ rate_log[3].rating = Some(<<"6">>)
    /\ ~rate_log[3].success
    /\ StoredFor(1) = {3}
    /\ StoredFor(2) = {5}

(***************************************************************************)
(* Calls of generate_meal_plan running at the same time *)
(***************************************************************************)

\* the recipes call c picked in the slots it processed before its i-th
PickedByCall(c, i) ==
    {Val(c.selections[j].id) : j \in {k \in 1..(i - 1) : ~IsNone(c.selections[k].id)}}

\* the pools of a call's arguments on the catalog
PoolsAlone(ingredients_arg, prefs_arg, race_arg) ==
    [mt \in Range(meal_types) |->
        get_recipes_by_filters(ingredients_arg, prefs_arg, race_arg, Some(mt))]

\* C25: concurrent generate_plan requests are independent.  When calls
\* interleave, each call's used set is its own (the picks of its own slots), a
\* recipe used by one call is never excluded from another call's candidates (a
\* slot is left empty only when the call itself has picked every recipe of the
\* category's pools), and each call returns a plan that it could have returned
\* when run alone on the same catalog.
C25_CallsIndependent ==
    \A t \in DOMAIN calls :
        LET c == calls[t]
        IN  c.pc \in {"loop", "done"}
                => /\ \A i \in 1..Len(c.selections) :
                          LET e == c.selections[i]
                              pool == Range(c.recipes_by_type[e.meal_type])
                                          \cup Range(c.fallback_by_type[e.meal_type])
                          IN  /\ e.used_before = PickedByCall(c, i)
                              /\ IsNone(e.id) => pool \subseteq PickedByCall(c, i)
                   /\ c.used_recipe_ids = PickedByCall(c, Len(c.selections) + 1)
                   /\ c.pc = "done"
                          => c.meal_plan \in
                                 PlansAlone(c.days,
                                            PoolsAlone(c.ingredients, c.dietary_prefs, c.race),
                                            PoolsAlone(None, None, None),
                                            1, 1, {}, EmptyDict)

\* two calls have returned plans of several days that hold the same recipe
C25_Witness ==
    /\ \A t \in DOMAIN calls : calls[t].pc = "done" /\ calls[t].days >= 2
    /\ \E r \in DOMAIN recipes :
           \A t \in DOMAIN calls : r \in calls[t].used_recipe_ids
    /\ calls[1].meal_plan # calls[2].meal_plan

(***************************************************************************)
(* The session's contract *)
(***************************************************************************)

\* the session holds a plan
HasPlan == ~IsNone(session.current_meal_plan)

SessionPlan == Val(session.current_meal_plan)
SessionList == SessionGet(session, "current_shopping_list")
SessionMetadata == SessionGet(session, "plan_metadata")

\* the pantry the session's plan was generated with, as its metadata records
\* it (no pantry when the metadata has none)
SessionPantry ==
    IF "ingredients" \in DOMAIN SessionMetadata THEN SessionMetadata["ingredients"] ELSE <<>>

\* C22 as claimed: the shopping list is always derived from its plan.  After
\* any sequence of generate_plan, generate_sample, import_json and export
\* requests, the shopping list stored in the session equals missing_ingredients
\* applied to the plan stored in the same session and the pantry of that
\* generation.
C22_ShoppingListDerived ==
    HasPlan
        => SessionList =
               calculate_missing_ingredients(PlanItems(SessionPlan),
                                             Some(SessionPantry)).value

\* the responses of the export routes
ExportResponses == {"pdf", "json", "no_plan"}

\* the session's plan was generated (its metadata names the cultural filter)
Generated == HasPlan /\ "race" \in DOMAIN SessionMetadata

\* C26: the output cache never affects selection.  The requests that generate
\* or import a plan leave the PDF cache as it is, the plan a generation stores
\* is one of the plans its catalog and arguments give whatever the cache
\* holds, and export_pdf and export_json never change the plan, shopping list
\* or metadata stored in the session.
C26_CacheApartFromSelection ==
    /\ [][response' \notin ExportResponses
              => pdf_cache' = pdf_cache /\ pdf_bytes' = pdf_bytes]_vars
    /\ [][response' \in ExportResponses => session' = session]_vars
    /\ [](Generated
              => SessionPlan \in
                     PlansAlone(SessionMetadata["days"],
                                PoolsAlone(IF SessionPantry = <<>> THEN None
                                           ELSE Some(SessionPantry),
                                           Some(SessionMetadata["dietary_prefs"]),
                                           SessionMetadata["race"]),
                                PoolsAlone(None, None, None), 1, 1, {}, EmptyDict))

\* a plan was generated while the cache held the PDF of another plan
C26_Witness ==
    /\ Generated
    /\ response = "meal_plan"
    /\ pdf_cache # <<>>
    /\ ~InCache(pdf_cache, PlanHash(SessionPlan))

\* C27 as claimed: the PDF returned by export_pdf is rendered from the
\* requesting session's own plan, shopping list and metadata: a cache hit
\* returns what a fresh rendering of the current session's data gives.
C27_RenderedFromOwnSession ==
    response = "pdf"
        => download = Some(RenderPdf(SessionPlan, SessionList, SessionMetadata))

=============================================================================
